---- MODULE Spec2Model ----
(***************************************************************************)
(* Pagination engine of trustar-python: the numbered page generator        *)
(* (trustar/models/numbered_page.py), the cursor page generator            *)
(* (trustar/models/cursor_page.py) and the flattening item generator that  *)
(* the report client wraps around them (trustar/report_client.py).         *)
(*                                                                         *)
(* Python values are encoded as follows.  An optional value is a set with  *)
(* at most one element: None is {} and the value v is {v}.  The outcome of *)
(* a call is a record [exc, ret]: exc is None when the call returned ret,  *)
(* and names the exception when the call raised.  A generator is a record  *)
(* whose pc field is its position: "created" (never pulled), "yielded"     *)
(* (suspended at its yield), "done" (returned) or "raised" (an exception   *)
(* left it); a pull on a generator that is done or raised reports          *)
(* StopIteration, as Python generators do.                                 *)
(***************************************************************************)
EXTENDS Integers, Sequences, FiniteSets, TLC

VARIABLES
    scn,    \* which generator the consumer drives in this run
    num,    \* NumberedPage.get_page_generator: its arguments and locals
    cur,    \* CursorPage.get_cursor_based_page_generator: arguments and locals
    flat,   \* Page.get_generator: its locals
    hist,   \* what the fetch function and the consumer have observed so far
    conv,   \* a conversion of a page or a report (from_dict / to_dict): input and result
    tw,     \* the time-window page generator of ReportClient: arguments, locals, server;
            \* or one application of its advance policy
    pair,   \* two page generators pulled in any interleaving
    req     \* a ReportClient call: its arguments and the request it sent

vars == <<scn, num, cur, flat, hist, conv, tw, pair, req>>

\* the variables of the numbered, cursor and item generators
paging == <<num, cur, flat, hist>>
\* the variables of the other runs
rest == <<conv, tw, pair, req>>

----------------------------------------------------------------------------
(* Bounds of the model *)

\* total_elements reported by a page ranges over 0..MaxTotal
MaxTotal == 3
\* page_size reported by a page ranges over 0..MaxSize
MaxSize == 2
\* start_page of the numbered generator ranges over 0..MaxStart
MaxStart == 1
\* pulls made on a generator after it has ended
MaxAfter == 1
\* a page holds at most MaxItems items
MaxItems == 3
\* the fetch function is called at most MaxFetch times in a run
MaxFetch == MaxTotal + 1
\* a page that is converted holds at most MaxConvItems items
MaxConvItems == 2
\* the server holds at most MaxReports reports
MaxReports == 3
\* a time window spans at most MaxDays days
MaxDays == 2
\* each generator of a pair is pulled at most MaxPairPulls times
MaxPairPulls == 3
\* a page handed to the advance policy holds at most MaxPolicyItems reports
MaxPolicyItems == 3
\* the time-window generator fetches at most MaxTimeFetch times in a run
MaxTimeFetch == MaxReports + MaxDays + 2

----------------------------------------------------------------------------
(* Python values *)

None == {}
Some(v) == {v}
Val(o) == CHOOSE v \in o : TRUE
Opt(S) == {None} \cup {Some(v) : v \in S}

Return(v) == [exc |-> None, ret |-> v]
Raise(e) == [exc |-> Some(e), ret |-> None]

\* the errors a fetch function raises (spec section 6: transport collaborator)
FetchErrors == {"TransportError", "ApiError"}

\* math.ceil(float(a) / float(b)) for integers a >= 0 and b > 0
Ceil(a, b) == IF a % b = 0 THEN a \div b ELSE (a \div b) + 1

----------------------------------------------------------------------------
(* NumberedPage *)

NumberedPage(items, page_number, page_size, total_elements, has_next) ==
    [items |-> items, page_number |-> page_number, page_size |-> page_size,
     total_elements |-> total_elements, has_next |-> has_next]

\* get_total_pages returning None for a page_size of 0
get_total_pages_guarded(self) ==
    IF self.total_elements = None \/ self.page_size = None \/ self.page_size = Some(0)
    THEN Return(None)
    ELSE Return(Some(Ceil(Val(self.total_elements), Val(self.page_size))))

\* get_total_pages rounding down instead of up
get_total_pages_floor(self) ==
    IF self.total_elements = None \/ self.page_size = None
    THEN Return(None)
    ELSE IF Val(self.page_size) = 0
         THEN Raise("ZeroDivisionError")
         ELSE Return(Some(Val(self.total_elements) \div Val(self.page_size)))

\* get_total_pages returning None only when both fields are unset
get_total_pages_both_unset(self) ==
    IF self.total_elements = None /\ self.page_size = None
    THEN Return(None)
    ELSE IF self.total_elements = None \/ self.page_size = None
         THEN Raise("TypeError")
         ELSE IF Val(self.page_size) = 0
              THEN Raise("ZeroDivisionError")
              ELSE Return(Some(Ceil(Val(self.total_elements), Val(self.page_size))))

\* get_total_pages: None when a field is unset, else
\* math.ceil(float(total_elements) / float(page_size)); the division raises
\* when page_size is 0
get_total_pages(self) ==
    IF self.total_elements = None \/ self.page_size = None
    THEN Return(None)
    ELSE IF Val(self.page_size) = 0
         THEN Raise("ZeroDivisionError")
         ELSE Return(Some(Ceil(Val(self.total_elements), Val(self.page_size))))

\* has_more_pages consulting has_next only after the computed page count
has_more_pages_computed_first(self) ==
    LET total_pages == get_total_pages(self) IN
    IF total_pages.exc # None
    THEN total_pages
    ELSE IF self.page_number # None /\ total_pages.ret # None
         THEN Return(Some(Val(self.page_number) + 1 < Val(total_pages.ret)))
         ELSE Return(self.has_next)

\* has_more_pages comparing page_number, not page_number + 1, with the page count
has_more_pages_inclusive(self) ==
    IF self.has_next # None
    THEN Return(self.has_next)
    ELSE LET total_pages == get_total_pages(self) IN
         IF total_pages.exc # None
         THEN total_pages
         ELSE IF self.page_number = None \/ total_pages.ret = None
              THEN Return(None)
              ELSE Return(Some(Val(self.page_number) < Val(total_pages.ret)))

\* has_more_pages: has_next when it is set, else None when page_number or the
\* page count is unknown, else page_number + 1 < total_pages
has_more_pages(self) ==
    IF self.has_next # None
    THEN Return(self.has_next)
    ELSE LET total_pages == get_total_pages(self) IN
         IF total_pages.exc # None
         THEN total_pages
         ELSE IF self.page_number = None \/ total_pages.ret = None
              THEN Return(None)
              ELSE Return(Some(Val(self.page_number) + 1 < Val(total_pages.ret)))

\* Python truth value of what has_more_pages returns (None is falsy)
Truthy(b) == b = Some(TRUE)

\* the local variable page before the first fetch
NoNumberedPage == NumberedPage(<<>>, None, None, None, None)

\* the generator object get_page_generator returns: nothing runs before the first pull
NewPageGenerator(start_page, page_size) ==
    [pc |-> "created", start_page |-> start_page, page_size |-> page_size,
     page_number |-> start_page, more_pages |-> Some(TRUE), page |-> NoNumberedPage]

\* one outcome of a pull: the generator afterwards, what the consumer gets
\* (out: "yield", "stop" or "raise", with the exception in err), and the
\* fetch call made during the pull, if any (called, args)
PullResult(g, out, err, called, args) ==
    [g |-> g, out |-> out, err |-> err, called |-> called, args |-> args]

NumArgs(g) == [page_number |-> g.page_number, page_size |-> g.page_size]

\* a failed fetch that leaves the generator resumable, so that a later pull fetches again
NumFetchAndYield_resumable(g, fetched) ==
    IF fetched.exc # None
    THEN PullResult(g, "raise", fetched.exc, TRUE, NumArgs(g))
    ELSE PullResult([g EXCEPT !.pc = "yielded", !.page = fetched.ret],
                    "yield", None, TRUE, NumArgs(g))

\* a loop body that ends the generator without yielding a page that has no next
NumFetchAndYield_drops_last(g, fetched) ==
    IF fetched.exc # None
    THEN PullResult([g EXCEPT !.pc = "raised"], "raise", fetched.exc, TRUE, NumArgs(g))
    ELSE IF fetched.ret.has_next = Some(FALSE)
    THEN PullResult([g EXCEPT !.pc = "done"], "stop", None, TRUE, NumArgs(g))
    ELSE PullResult([g EXCEPT !.pc = "yielded", !.page = fetched.ret],
                    "yield", None, TRUE, NumArgs(g))

\* a loop body that keeps the first page for its continuation test
NumFetchAndYield_keeps_first(g, fetched) ==
    IF fetched.exc # None
    THEN PullResult([g EXCEPT !.pc = "raised"], "raise", fetched.exc, TRUE, NumArgs(g))
    ELSE PullResult([g EXCEPT !.pc = "yielded",
                              !.page = IF g.pc = "created" THEN fetched.ret ELSE g.page],
                    "yield", None, TRUE, NumArgs(g))

\* the body of the while loop up to the yield: page = func(...); yield page.
\* fetched is the outcome of func: Return(page) or Raise(error); an exception
\* of func leaves the generator, which is then finished
NumFetchAndYield(g, fetched) ==
    IF fetched.exc # None
    THEN PullResult([g EXCEPT !.pc = "raised"], "raise", fetched.exc, TRUE, NumArgs(g))
    ELSE PullResult([g EXCEPT !.pc = "yielded", !.page = fetched.ret],
                    "yield", None, TRUE, NumArgs(g))

\* the end of the loop body with page_number never advanced
NumAdvance_no_increment(g, more) == [g EXCEPT !.more_pages = more]

\* the end of the loop body: more_pages = page.has_more_pages(); page_number += 1
NumAdvance(g, more) ==
    [g EXCEPT !.more_pages = more, !.page_number = g.page_number + 1]

\* a loop test that goes on unless more_pages is False (None continues)
NumLoopTest_none_continues(g) == g.more_pages # Some(FALSE)

\* the loop test: while more_pages
NumLoopTest(g) == Truthy(g.more_pages)

\* a generator that tests its own counter, not the page_number of the page
get_page_generator_own_counter(g, fetched) ==
    CASE g.pc = "created" -> NumFetchAndYield(g, fetched)
      [] g.pc = "yielded" ->
            LET more == has_more_pages([g.page EXCEPT !.page_number = Some(g.page_number)]) IN
            IF more.exc # None
            THEN PullResult([g EXCEPT !.pc = "raised"], "raise", more.exc, FALSE, None)
            ELSE LET g1 == NumAdvance(g, more.ret) IN
                 IF NumLoopTest(g1)
                 THEN NumFetchAndYield(g1, fetched)
                 ELSE PullResult([g1 EXCEPT !.pc = "done"], "stop", None, FALSE, None)
      [] OTHER -> PullResult(g, "stop", None, FALSE, None)

\* a generator that starts again from the first page when pulled after its end
get_page_generator_restarts(g, fetched) ==
    CASE g.pc = "created" -> NumFetchAndYield(g, fetched)
      [] g.pc = "yielded" ->
            LET more == has_more_pages(g.page) IN
            IF more.exc # None
            THEN PullResult([g EXCEPT !.pc = "raised"], "raise", more.exc, FALSE, None)
            ELSE LET g1 == NumAdvance(g, more.ret) IN
                 IF NumLoopTest(g1)
                 THEN NumFetchAndYield(g1, fetched)
                 ELSE PullResult([g1 EXCEPT !.pc = "done"], "stop", None, FALSE, None)
      [] OTHER -> NumFetchAndYield(NewPageGenerator(g.start_page, g.page_size), fetched)

\* one pull (next()) on the generator of get_page_generator; fetched is what
\* func does if the pull reaches the call
get_page_generator(g, fetched) ==
    CASE g.pc = "created" -> NumFetchAndYield(g, fetched)
      [] g.pc = "yielded" ->
            LET more == has_more_pages(g.page) IN
            IF more.exc # None
            THEN PullResult([g EXCEPT !.pc = "raised"], "raise", more.exc, FALSE, None)
            ELSE LET g1 == NumAdvance(g, more.ret) IN
                 IF NumLoopTest(g1)
                 THEN NumFetchAndYield(g1, fetched)
                 ELSE PullResult([g1 EXCEPT !.pc = "done"], "stop", None, FALSE, None)
      [] OTHER -> PullResult(g, "stop", None, FALSE, None)

----------------------------------------------------------------------------
(* CursorPage *)

\* A dictionary is a set of <<key, value>> pairs with distinct keys.
\* dict.get(key): the value, or None when the key is absent
DictGet(d, key) ==
    IF \E kv \in d : kv[1] = key
    THEN Some((CHOOSE kv \in d : kv[1] = key)[2])
    ELSE None

\* Cursor values are strings.  The values "int:0" and "bool:False" stand for
\* the Python values 0 and False, which are falsy without being strings.
NonStringFalsy == {"int:0", "bool:False"}

\* Python truth value of an optional cursor: None, '', 0 and False are falsy
CursorTruthy(c) == c # None /\ Val(c) # "" /\ Val(c) \notin NonStringFalsy

\* Python truth value of an optional dictionary: None and {} are falsy
DictTruthy(d) == d # None /\ Val(d) # {}

\* An item is a record [id, kind]: kind "model" is an object of a model
\* class, which has a to_dict method; kind "raw" is a plain mapping, which
\* has none.
ItemToDict(n) == [id |-> n.id, kind |-> "raw"]

CursorPage(items, response_metadata) ==
    [items |-> items, response_metadata |-> response_metadata]

\* CursorPage.to_dict: n.to_dict(remove_nones) for every item n
CursorPage_to_dict(self) ==
    IF \E i \in 1..Len(self.items) : self.items[i].kind # "model"
    THEN Raise("AttributeError")
    ELSE Return([items |-> [i \in 1..Len(self.items) |-> ItemToDict(self.items[i])],
                 responseMetadata |-> self.response_metadata])

\* get_next_cursor, the local function of get_cursor_based_page_generator;
\* page_dict has two keys, so it is truthy
get_next_cursor(page) ==
    LET page_dict == CursorPage_to_dict(page) IN
    IF page_dict.exc # None
    THEN page_dict
    ELSE LET response_metadata == page_dict.ret.responseMetadata IN
         IF DictTruthy(response_metadata)
         THEN Return(DictGet(Val(response_metadata), "nextCursor"))
         ELSE Return(Some(""))

NoCursorPage == CursorPage(<<>>, None)

\* the generator object get_cursor_based_page_generator returns
NewCursorGenerator(cursor) ==
    [pc |-> "created", cursor_arg |-> cursor, cursor |-> cursor,
     finished |-> FALSE, page |-> NoCursorPage]

CurArgs(g) == [cursor |-> g.cursor]

\* a termination test that ends on an absent cursor only
CurFinished_absent_only(cursor) == cursor = None

\* finished = not cursor
CurFinished(cursor) == ~CursorTruthy(cursor)

\* the loop body with the termination test applied to the cursor just used
CurFetchAndYield_stale_test(g, fetched) ==
    IF fetched.exc # None
    THEN PullResult([g EXCEPT !.pc = "raised"], "raise", fetched.exc, TRUE, CurArgs(g))
    ELSE LET next == get_next_cursor(fetched.ret) IN
         IF next.exc # None
         THEN PullResult([g EXCEPT !.pc = "raised", !.page = fetched.ret],
                         "raise", next.exc, TRUE, CurArgs(g))
         ELSE PullResult([g EXCEPT !.pc = "yielded", !.page = fetched.ret,
                                   !.cursor = next.ret,
                                   !.finished = CurFinished(g.cursor)],
                         "yield", None, TRUE, CurArgs(g))

\* a loop body that yields the page although its next cursor cannot be extracted
CurFetchAndYield_delivers_first(g, fetched) ==
    IF fetched.exc # None
    THEN PullResult([g EXCEPT !.pc = "raised"], "raise", fetched.exc, TRUE, CurArgs(g))
    ELSE LET next == get_next_cursor(fetched.ret) IN
         IF next.exc # None
         THEN PullResult([g EXCEPT !.pc = "yielded", !.page = fetched.ret,
                                   !.finished = TRUE],
                         "yield", None, TRUE, CurArgs(g))
         ELSE PullResult([g EXCEPT !.pc = "yielded", !.page = fetched.ret,
                                   !.cursor = next.ret,
                                   !.finished = CurFinished(next.ret)],
                         "yield", None, TRUE, CurArgs(g))

\* the loop body: page = get_page(cursor=cursor); cursor = get_next_cursor(page);
\* finished = not cursor; yield page.  An exception of get_page or of
\* get_next_cursor leaves the generator before the yield
CurFetchAndYield(g, fetched) ==
    IF fetched.exc # None
    THEN PullResult([g EXCEPT !.pc = "raised"], "raise", fetched.exc, TRUE, CurArgs(g))
    ELSE LET next == get_next_cursor(fetched.ret) IN
         IF next.exc # None
         THEN PullResult([g EXCEPT !.pc = "raised", !.page = fetched.ret],
                         "raise", next.exc, TRUE, CurArgs(g))
         ELSE PullResult([g EXCEPT !.pc = "yielded", !.page = fetched.ret,
                                   !.cursor = next.ret,
                                   !.finished = CurFinished(next.ret)],
                         "yield", None, TRUE, CurArgs(g))

\* one pull (next()) on the generator of get_cursor_based_page_generator;
\* fetched is what get_page does if the pull reaches the call
get_cursor_based_page_generator(g, fetched) ==
    CASE g.pc = "created" -> CurFetchAndYield(g, fetched)
      [] g.pc = "yielded" ->
            IF ~g.finished
            THEN CurFetchAndYield(g, fetched)
            ELSE PullResult([g EXCEPT !.pc = "done"], "stop", None, FALSE, None)
      [] OTHER -> PullResult(g, "stop", None, FALSE, None)

----------------------------------------------------------------------------
(* Page.get_generator, the flattening generator *)

\* the generator object get_generator returns; page_generator is num
NewItemGenerator == [pc |-> "created", items |-> <<>>, idx |-> 0]

\* the next page is pulled before the last item of the page held is yielded
FlatNeedsPage_early(f) ==
    \/ f.pc \in {"created", "next_page"}
    \/ f.pc = "yielded" /\ f.idx >= Len(f.items) - 1

\* the next pull (or the pull under way) has to pull the page generator
FlatNeedsPage(f) ==
    \/ f.pc \in {"created", "next_page"}
    \/ f.pc = "yielded" /\ f.idx = Len(f.items)

FlatResult(f, out, err, item) == [f |-> f, out |-> out, err |-> err, item |-> item]

\* a flattening generator that ends at the first empty page
get_generator_stops_at_empty(f, pulled) ==
    IF f.pc \in {"done", "raised"}
    THEN FlatResult(f, "stop", None, None)
    ELSE IF ~FlatNeedsPage(f)
    THEN FlatResult([f EXCEPT !.idx = f.idx + 1], "yield", None, Some(f.items[f.idx + 1]))
    ELSE CASE pulled.out = "yield" ->
                 LET items == pulled.g.page.items IN
                 IF Len(items) > 0
                 THEN FlatResult([pc |-> "yielded", items |-> items, idx |-> 1],
                                 "yield", None, Some(items[1]))
                 ELSE FlatResult([f EXCEPT !.pc = "done"], "stop", None, None)
           [] pulled.out = "raise" ->
                 FlatResult([f EXCEPT !.pc = "raised"], "raise", pulled.err, None)
           [] OTHER -> FlatResult([f EXCEPT !.pc = "done"], "stop", None, None)

\* for page in page_generator: for item in page.items: yield item.
\* One step of a pull (next()) on the item generator: it yields the next
\* item of the page it holds, or pulls the page generator (pulled is the
\* outcome of that pull).  After an empty page the pull is still under way
\* (pc "next_page", out "none") and its next step pulls the page generator again.
get_generator(f, pulled) ==
    IF f.pc \in {"done", "raised"}
    THEN FlatResult(f, "stop", None, None)
    ELSE IF ~FlatNeedsPage(f)
    THEN FlatResult([f EXCEPT !.idx = f.idx + 1], "yield", None, Some(f.items[f.idx + 1]))
    ELSE CASE pulled.out = "yield" ->
                 LET items == pulled.g.page.items IN
                 IF Len(items) > 0
                 THEN FlatResult([pc |-> "yielded", items |-> items, idx |-> 1],
                                 "yield", None, Some(items[1]))
                 ELSE FlatResult([pc |-> "next_page", items |-> items, idx |-> 0],
                                 "none", None, None)
           [] pulled.out = "raise" ->
                 FlatResult([f EXCEPT !.pc = "raised"], "raise", pulled.err, None)
           [] OTHER -> FlatResult([f EXCEPT !.pc = "done"], "stop", None, None)

----------------------------------------------------------------------------
(* The fetch functions and the consumers *)

PageSizes == 0..MaxSize
TotalElements == 0..MaxTotal

\* the page_number a page may report when page_number was requested: none,
\* the requested one, or always 0
PageNumbers(requested) == {None, Some(requested), Some(0)}

\* the pages func may return to a request: any combination of the metadata fields
NumberedPages(args) ==
    {NumberedPage(<<>>, pn, ps, te, hn) :
        pn \in PageNumbers(args.page_number), ps \in Opt(PageSizes),
        te \in Opt(TotalElements), hn \in Opt(BOOLEAN)}

\* the items of the k-th page fetched, n of them: the server gives every
\* item an id of its own
ModelItems(k, n) == [i \in 1..n |-> [id |-> <<k, i>>, kind |-> "model"]]

\* the pages func returns under the flattening generator: 0..MaxItems items,
\* continuation by has_next
ItemPages(k) ==
    {NumberedPage(ModelItems(k, n), None, None, None, Some(hn)) :
        n \in 0..MaxItems, hn \in BOOLEAN}

\* what a call of func does: it returns a page or raises
NumFetchOutcomes(args, k) ==
    {Return(p) : p \in (IF scn = "flat" THEN ItemPages(k) ELSE NumberedPages(args))}
        \cup {Raise(e) : e \in FetchErrors}

\* the fetch call the next pull of g makes, if it makes one
NumNextCall(g) ==
    LET r == get_page_generator(g, Raise("TransportError")) IN
    IF r.called THEN Some(r.args) ELSE None

StartPages == 0..MaxStart
\* the page_size argument of get_page_generator (None is its default)
PageSizeArgs == {None, Some(MaxSize)}

\* the cursors a server issues
CursorValues == {"", "abc", "def"} \cup NonStringFalsy

\* the response metadata of a page: absent, empty, without a nextCursor, or
\* with one
ResponseMetadata ==
    {None, Some({}), Some({<<"other", "x">>})}
        \cup {Some({<<"nextCursor", c>>}) : c \in CursorValues}

\* the items of a cursor page: none, a model object, or a raw mapping
CursorItems(k) ==
    {<<>>, ModelItems(k, 1), <<[id |-> <<k, 1>>, kind |-> "raw"]>>}

CursorPages(k) ==
    {CursorPage(items, rm) : items \in CursorItems(k), rm \in ResponseMetadata}

CurFetchOutcomes(k) ==
    {Return(p) : p \in CursorPages(k)} \cup {Raise(e) : e \in FetchErrors}

CurNextCall(g) ==
    LET r == get_cursor_based_page_generator(g, Raise("TransportError")) IN
    IF r.called THEN Some(r.args) ELSE None

\* the cursor argument of get_cursor_based_page_generator (None is its default)
CursorArgs == {None, Some("abc")}

\* nothing observed yet
NoHistory ==
    [nfetch |-> 0,          \* calls of the fetch function so far
     nyield |-> 0,          \* pages the page generator has yielded
     npull |-> 0,           \* pulls made on the page generator
     after |-> 0,           \* pulls made on a generator after it ended
     out |-> "none",        \* what the last pull gave: "yield", "stop" or "raise"
     err |-> None,          \* the exception the last pull gave
     lastcall |-> None,     \* the arguments of the last fetch call
     fetched_page |-> None, \* the page the last fetch call returned
     trend |-> "none",      \* total_elements of that page against the page returned
                            \* before it: "grew", "shrank", or "none"
     consistent |-> TRUE,   \* every fetch so far returned a consistent numbered page
     halted_at |-> 0,       \* nfetch when a yielded page first had has_more_pages
                            \* false or None (0: no such page yet)
     fetch_err |-> None,    \* the exception a fetch call raised
     failed_pull |-> 0,     \* the pull during which that fetch call was made
     wellformed |-> TRUE,   \* every cursor page so far has model items and a
                            \* next cursor that is a string or absent
     nterminal |-> 0,       \* cursor pages fetched whose next cursor is '' or absent
     pages |-> <<>>,        \* the items of each page the item generator pulled
     items |-> <<>>]        \* the items the item generator has yielded

\* page is consistent with the request and with the page before it: it
\* reports the requested page_number, a positive page_size, a
\* total_elements, no has_next, and the same sizes as the page before
ConsistentPage(p, args, first, before) ==
    /\ p.has_next = None
    /\ p.page_number = Some(args.page_number)
    /\ p.page_size # None /\ Val(p.page_size) > 0
    /\ p.total_elements # None
    /\ first \/ (p.page_size = before.page_size
                 /\ p.total_elements = before.total_elements)

\* has_more_pages of p is false or indeterminate
Halting(p) == LET more == has_more_pages(p) IN more.exc = None /\ ~Truthy(more.ret)

\* the nextCursor entry of the response metadata of p, None when absent
NextCursorField(p) ==
    IF p.response_metadata = None THEN None
    ELSE DictGet(Val(p.response_metadata), "nextCursor")

\* the next cursor of p is the empty string or absent
TerminalPage(p) == NextCursorField(p) \in {None, Some("")}

\* p is a page of the data model: its items are model objects and its next
\* cursor, when present, is a string
WellFormedPage(p) ==
    /\ \A i \in 1..Len(p.items) : p.items[i].kind = "model"
    /\ NextCursorField(p) = None \/ Val(NextCursorField(p)) \notin NonStringFalsy

\* the observations after a pull, with result r, of a page generator that
\* was at pc before
Observe(h, pc, r) ==
    [h EXCEPT
        !.nfetch = IF r.called THEN @ + 1 ELSE @,
        !.nyield = IF r.out = "yield" THEN @ + 1 ELSE @,
        !.npull = @ + 1,
        !.after = IF pc \in {"done", "raised"} THEN @ + 1 ELSE @,
        !.out = r.out,
        !.err = r.err,
        !.lastcall = IF r.called THEN Some(r.args) ELSE @,
        !.fetch_err = IF r.called /\ r.out = "raise" /\ r.err \subseteq FetchErrors
                      THEN r.err ELSE @,
        !.failed_pull = IF r.called /\ r.out = "raise" /\ r.err \subseteq FetchErrors
                        THEN h.npull + 1 ELSE @]

\* total_elements of page against that of the page before it
TotalTrend(before, page) ==
    IF before = None \/ Val(before).total_elements = None \/ page.total_elements = None
    THEN "none"
    ELSE IF Val(page.total_elements) > Val(Val(before).total_elements) THEN "grew"
    ELSE IF Val(page.total_elements) < Val(Val(before).total_elements) THEN "shrank"
    ELSE "none"

\* a pull of the numbered generator g, fetched being what func did
NumObserve(h, g, r, fetched) ==
    [Observe(h, g.pc, r) EXCEPT
        !.fetched_page = IF r.called /\ fetched.exc = None THEN Some(fetched.ret) ELSE @,
        !.trend = IF r.called /\ fetched.exc = None
                  THEN TotalTrend(h.fetched_page, fetched.ret) ELSE @,
        !.consistent = IF ~r.called THEN @
                       ELSE /\ @
                            /\ fetched.exc = None
                            /\ ConsistentPage(fetched.ret, r.args, h.nfetch = 0, g.page),
        !.halted_at = IF @ = 0 /\ r.out = "yield" /\ Halting(r.g.page)
                      THEN h.nfetch + 1 ELSE @]

\* a pull of the cursor generator g, fetched being what get_page did
CurObserve(h, g, r, fetched) ==
    [Observe(h, g.pc, r) EXCEPT
        !.fetched_page = IF r.called /\ fetched.exc = None THEN Some(fetched.ret) ELSE @,
        !.wellformed = IF r.called /\ fetched.exc = None
                       THEN @ /\ WellFormedPage(fetched.ret) ELSE @,
        !.nterminal = IF r.called /\ fetched.exc = None /\ TerminalPage(fetched.ret)
                      THEN @ + 1 ELSE @]

\* a step of the item generator with result fr, pulled being the page pulled, if any
FlatObserve(h, needed, pulled, fr) ==
    [h EXCEPT
        !.pages = IF needed /\ pulled.out = "yield"
                  THEN Append(@, pulled.g.page.items) ELSE @,
        !.items = IF fr.out = "yield" THEN Append(@, Val(fr.item)) ELSE @]

IdleNum == [pc |-> "idle"]
IdleCur == [pc |-> "idle"]
IdleFlat == [pc |-> "idle"]
IdleConv == [pc |-> "idle"]
IdleTw == [pc |-> "idle"]
IdlePair == <<>>
IdleReq == [pc |-> "idle"]

\* the variables of the other runs take no part in a run of these generators
RestIdle == conv = IdleConv /\ tw = IdleTw /\ pair = IdlePair /\ req = IdleReq

\* ReportClient._get_correlated_reports_page_generator and the like
InitNumbered ==
    /\ scn = "numbered"
    /\ \E start_page \in StartPages, page_size \in PageSizeArgs :
          num = NewPageGenerator(start_page, page_size)
    /\ cur = IdleCur
    /\ flat = IdleFlat
    /\ hist = NoHistory
    /\ RestIdle

InitCursor ==
    /\ scn = "cursor"
    /\ \E cursor \in CursorArgs : cur = NewCursorGenerator(cursor)
    /\ num = IdleNum
    /\ flat = IdleFlat
    /\ hist = NoHistory
    /\ RestIdle

\* ReportClient.get_correlated_reports: get_generator over the page generator
\* with start_page 0 and page_size None
InitFlat ==
    /\ scn = "flat"
    /\ num = NewPageGenerator(0, None)
    /\ flat = NewItemGenerator
    /\ cur = IdleCur
    /\ hist = NoHistory
    /\ RestIdle

\* the consumer pulls the numbered generator: next(gen)
NumPull ==
    /\ scn = "numbered"
    /\ num.pc \in {"done", "raised"} => hist.after < MaxAfter
    /\ LET call == NumNextCall(num) IN
       /\ call # None => hist.nfetch < MaxFetch
       /\ \E fetched \in (IF call = None THEN {Raise("TransportError")}
                           ELSE NumFetchOutcomes(Val(call), hist.nfetch + 1)) :
             LET r == get_page_generator(num, fetched) IN
             /\ num' = r.g
             /\ hist' = NumObserve(hist, num, r, fetched)
    /\ UNCHANGED <<scn, cur, flat, rest>>

\* the consumer pulls the cursor generator: next(gen)
CurPull ==
    /\ scn = "cursor"
    /\ cur.pc \in {"done", "raised"} => hist.after < MaxAfter
    /\ LET call == CurNextCall(cur) IN
       /\ call # None => hist.nfetch < MaxFetch
       /\ \E fetched \in (IF call = None THEN {Raise("TransportError")}
                           ELSE CurFetchOutcomes(hist.nfetch + 1)) :
             LET r == get_cursor_based_page_generator(cur, fetched) IN
             /\ cur' = r.g
             /\ hist' = CurObserve(hist, cur, r, fetched)
    /\ UNCHANGED <<scn, num, flat, rest>>

\* the consumer pulls the item generator, or a pull under way goes on to
\* the next page
FlatPull ==
    /\ scn = "flat"
    /\ flat.pc \in {"done", "raised"} => hist.after < MaxAfter
    /\ IF flat.pc \notin {"done", "raised"} /\ FlatNeedsPage(flat)
       THEN LET call == NumNextCall(num) IN
            /\ call # None => hist.nfetch < MaxFetch
            /\ \E fetched \in (IF call = None THEN {Raise("TransportError")}
                                ELSE NumFetchOutcomes(Val(call), hist.nfetch + 1)) :
                  LET r == get_page_generator(num, fetched)
                      fr == get_generator(flat, r)
                  IN /\ num' = r.g
                     /\ flat' = fr.f
                     /\ hist' = FlatObserve(NumObserve(hist, num, r, fetched), TRUE, r, fr)
       ELSE LET fr == get_generator(flat, [out |-> "none"]) IN
            /\ flat' = fr.f
            /\ hist' = [FlatObserve(hist, FALSE, [out |-> "none"], fr) EXCEPT
                           !.after = IF flat.pc \in {"done", "raised"} THEN @ + 1 ELSE @]
            /\ UNCHANGED num
    /\ UNCHANGED <<scn, cur, rest>>

----------------------------------------------------------------------------
(* Properties of the numbered page generator *)

\* the least n with n * page_size >= total_elements: ceil(total_elements / page_size)
PagesNeeded(total_elements, page_size) ==
    CHOOSE n \in 0..total_elements :
        /\ n * page_size >= total_elements
        /\ \A m \in 0..(n - 1) : m * page_size < total_elements

\* the generator started at page 0 and every fetch so far returned a
\* consistent page (so num.page carries the constant sizes)
ConsistentRun ==
    /\ scn = "numbered"
    /\ num.start_page = 0
    /\ hist.consistent
    /\ hist.nyield >= 1

\* a consistent run yields exactly want pages and then ends
YieldsExactly(want) ==
    /\ hist.nyield <= want
    /\ num.pc \in {"yielded", "done"}
    /\ num.pc = "done" => hist.nyield = want /\ hist.nfetch = want
    /\ num.pc = "yielded" /\ hist.nyield = want => NumNextCall(num) = None
    /\ num.pc = "yielded" /\ hist.nyield < want => NumNextCall(num) # None

\* C1 as stated: from page 0, over consistent pages with a positive
\* page_size and any total_elements >= 0, the generator yields exactly
\* ceil(total_elements / page_size) pages and then ends.
C1_ExactlyCeilPages ==
    ConsistentRun =>
        YieldsExactly(PagesNeeded(Val(num.page.total_elements), Val(num.page.page_size)))

\* C1 amended: from page 0, over consistent pages, the generator yields
\* exactly max(1, ceil(total_elements / page_size)) pages and then ends: the
\* first page is fetched and yielded before any test, also when
\* total_elements is 0.
C1_AtLeastOneThenCeilPages ==
    ConsistentRun =>
        LET needed == PagesNeeded(Val(num.page.total_elements), Val(num.page.page_size))
        IN YieldsExactly(IF needed = 0 THEN 1 ELSE needed)

\* 3 elements in pages of 2: two pages were yielded and the generator ended
C1_Witness ==
    /\ ConsistentRun
    /\ num.pc = "done"
    /\ num.page.total_elements = Some(3)
    /\ num.page.page_size = Some(2)
    /\ hist.nyield = 2

\* the consumer's pull resumes the numbered generator from its yield
NumResumes == scn = "numbered" /\ num.pc = "yielded" /\ hist'.npull = hist.npull + 1

\* C2: when has_next is set on the page just yielded, has_more_pages returns
\* exactly has_next, whatever the other fields say: the next pull ends the
\* generator without a fetch when has_next is false, and makes the next fetch
\* when has_next is true.
C2_HasNextWins ==
    [][(NumResumes /\ num.page.has_next # None) =>
          /\ has_more_pages(num.page) = Return(num.page.has_next)
          /\ num'.more_pages = num.page.has_next
          /\ num.page.has_next = Some(FALSE) =>
                num'.pc = "done" /\ hist'.out = "stop" /\ hist'.nfetch = hist.nfetch
          /\ num.page.has_next = Some(TRUE) =>
                /\ hist'.nfetch = hist.nfetch + 1
                /\ Val(hist'.lastcall).page_number = num.page_number + 1
                /\ num'.pc \in {"yielded", "raised"}]_vars

\* page 0 of 3 pages says has_next = false, and the generator ended after it
C2_Witness ==
    /\ scn = "numbered"
    /\ num.pc = "done"
    /\ hist.nyield = 1
    /\ num.page.has_next = Some(FALSE)
    /\ num.page.page_number = Some(0)
    /\ num.page.page_size = Some(1)
    /\ num.page.total_elements = Some(3)

\* has_next is unset and one of page_number, page_size, total_elements is
\* unset, on a page of the data model (page_size positive or unset)
IndeterminatePage(p) ==
    /\ p.has_next = None
    /\ p.page_number = None \/ p.page_size = None \/ p.total_elements = None
    /\ p.page_size # Some(0)

C4_NoneNeverRaises ==
    (/\ scn = "numbered"
     /\ hist.nyield >= 1
     /\ num.page.has_next = None
     /\ num.page.page_size = None \/ num.page.total_elements = None)
    => /\ has_more_pages(num.page) = Return(None)
       /\ num.pc \in {"yielded", "done"}
       /\ num.pc = "done" => num.more_pages = None /\ hist.out = "stop"

\* has_more_pages ran on NumberedPage(page_number=0) with the rest unset
C4_Witness ==
    /\ scn = "numbered"
    /\ num.pc = "done"
    /\ num.page = NumberedPage(<<>>, Some(0), None, None, None)
    /\ num.more_pages = None

\* C5: the k-th fetch (k = 0, 1, ...) receives page_number = start_page + k
\* and the page_size of the generator; the page yielded is the page just
\* fetched, one per fetch; and no fetch is made after the first yielded page
\* on which has_more_pages is false or None.
C5_FetchSequence ==
    (scn = "numbered" /\ hist.nfetch > 0) =>
        /\ hist.lastcall = Some([page_number |-> num.start_page + hist.nfetch - 1,
                                 page_size |-> num.page_size])
        /\ num.pc = "yielded" =>
              hist.fetched_page = Some(num.page) /\ hist.nyield = hist.nfetch
        /\ hist.nyield \in {hist.nfetch - 1, hist.nfetch}
        /\ hist.halted_at > 0 => hist.nfetch = hist.halted_at

\* three fetches from start_page 1 and then the end
C5_Witness ==
    /\ scn = "numbered"
    /\ num.start_page = 1
    /\ hist.nfetch = 3
    /\ hist.halted_at = 3
    /\ num.pc = "done"

----------------------------------------------------------------------------
(* Properties of the cursor page generator *)

\* a fetch function of the data model that has not failed
WellFormedRun == scn = "cursor" /\ hist.wellformed /\ hist.fetch_err = None

C7_CursorRoundTrip ==
    [][(scn = "cursor" /\ hist'.nfetch = hist.nfetch + 1) =>
          /\ Val(hist'.lastcall).cursor =
                (IF hist.nfetch = 0 THEN cur.cursor_arg ELSE NextCursorField(cur.page))
          /\ cur'.pc = "yielded" =>
                /\ cur'.finished = ~CursorTruthy(NextCursorField(cur'.page))
                /\ ~cur'.finished => cur'.cursor = NextCursorField(cur'.page)]_vars

\* the second fetch was made with "def", and its page carries no cursor
C7_Witness ==
    /\ scn = "cursor"
    /\ cur.pc = "yielded"
    /\ hist.nfetch = 2
    /\ hist.lastcall = Some([cursor |-> Some("def")])
    /\ NextCursorField(cur.page) = None
    /\ cur.finished

\* C8: the termination test is strict string emptiness: the generator is
\* finished only when the extracted next cursor is the empty string or
\* absent, and goes on after a next cursor such as 0 or False.
C8_StrictEmptiness ==
    (scn = "cursor" /\ cur.pc \in {"yielded", "done"} /\ cur.finished) =>
        cur.cursor \in {None, Some("")}

----------------------------------------------------------------------------
(* Properties of the flattening generator *)

RECURSIVE Concat(_)
\* the concatenation of a sequence of sequences
Concat(ss) == IF ss = <<>> THEN <<>> ELSE Head(ss) \o Concat(Tail(ss))

\* all but the last element
Front(ss) == SubSeq(ss, 1, Len(ss) - 1)

\* C9: the items yielded are the concatenation of the items of the pages
\* pulled, in page order and then intra-page order: all items of the
\* earlier pages and the first idx items of the current one; the item
\* generator ends only when the page generator has ended (an empty page
\* does not end it), and then every item of every page was yielded.
C9_Concatenation ==
    scn = "flat" =>
        /\ hist.pages # <<>> /\ flat.pc \in {"yielded", "next_page"} =>
              hist.items = Concat(Front(hist.pages))
                              \o SubSeq(hist.pages[Len(hist.pages)], 1, flat.idx)
        /\ flat.pc = "done" => hist.items = Concat(hist.pages) /\ num.pc = "done"
        /\ flat.pc = "raised" => hist.items = Concat(hist.pages) /\ num.pc = "raised"
        /\ hist.pages = <<>> => hist.items = <<>>

\* pages of 3, 3 and 1 items gave 7 items
C9_Witness ==
    /\ scn = "flat"
    /\ flat.pc = "done"
    /\ Len(hist.pages) = 3
    /\ Len(hist.pages[1]) = 3 /\ Len(hist.pages[2]) = 3 /\ Len(hist.pages[3]) = 1
    /\ Len(hist.items) = 7

----------------------------------------------------------------------------
(* Fetch failures *)

\* the position of the page generator the consumer drives
GenPc == IF scn = "cursor" THEN cur.pc ELSE num.pc

\* C10: when the fetch fails on the k-th pull of a numbered or cursor
\* generator, it was the k-th fetch, the consumer holds the k-1 pages
\* fetched before and gets that failure from the k-th pull, and the
\* generator is finished: later pulls report the end and fetch nothing.
C10_FetchFailureEndsGenerator ==
    (scn \in {"numbered", "cursor"} /\ hist.fetch_err # None) =>
        /\ GenPc = "raised"
        /\ hist.nfetch = hist.failed_pull
        /\ hist.nyield = hist.failed_pull - 1
        /\ hist.npull = hist.failed_pull => hist.out = "raise" /\ hist.err = hist.fetch_err
        /\ hist.npull > hist.failed_pull => hist.out = "stop"

\* the third fetch failed and the consumer pulled once more
C10_Witness ==
    /\ scn = "cursor"
    /\ hist.fetch_err = Some("ApiError")
    /\ hist.failed_pull = 3
    /\ hist.nyield = 2
    /\ hist.npull = 4

----------------------------------------------------------------------------
(* Page conversions: from_dict and to_dict of NumberedPage and CursorPage *)

\* A Report object, as far as a page conversion looks at it: Report.__init__
ReportObject(id, is_enclave) == [kind |-> "model", id |-> id, is_enclave |-> is_enclave]

\* Report._get_distribution_type
Report_get_distribution_type(self) == IF self.is_enclave THEN "ENCLAVE" ELSE "COMMUNITY"

\* Report.to_dict with remove_nones at its default: a mapping, which has no
\* to_dict method
Report_to_dict(self) ==
    [kind |-> "raw", id |-> self.id,
     distributionType |-> Report_get_distribution_type(self)]

\* Report.from_dict: is_enclave = distribution_type.upper() != COMMUNITY
Report_from_dict(report) ==
    ReportObject(report.id, report.distributionType # "COMMUNITY")

\* hasattr(item, 'to_dict')
HasToDict(item) == item.kind = "model"

\* an exception with its message, the message as a sequence of words
PyError(type, message) == [type |-> type, message |-> message]

\* "'content_type' must be a subclass of ModelBase."
SubclassMessage ==
    <<"'content_type'", "must", "be", "a", "subclass", "of", "ModelBase.">>

\* The content_type argument: None, the class Report (a subclass of
\* ModelBase), a class that is no subclass of ModelBase, or a value that is
\* no class at all, for which issubclass raises TypeError.
ContentTypes == {None, Some("Report"), Some("Widget"), Some("not_a_class")}
IsClass(content_type) == Val(content_type) # "not_a_class"
IsModelBase(content_type) == Val(content_type) = "Report"

\* the check and the item conversion shared by both from_dict methods:
\* result is the page built from the dictionary
ConvertItems(result, content_type) ==
    IF content_type = None
    THEN Return(result)
    ELSE IF ~IsClass(content_type)
    THEN Raise(PyError("TypeError", <<"issubclass()", "arg", "1", "must", "be", "a", "class">>))
    ELSE IF ~IsModelBase(content_type)
    THEN Raise(PyError("ValueError", SubclassMessage))
    ELSE Return([result EXCEPT
                    !.items = [i \in 1..Len(result.items) |-> Report_from_dict(result.items[i])]])

\* NumberedPage.from_dict that converts the items whatever content_type is
NumberedPage_from_dict_unchecked(page, content_type) ==
    LET result == NumberedPage(page.items, page.pageNumber, page.pageSize,
                               page.totalElements, page.hasNext)
    IN IF content_type = None
       THEN Return(result)
       ELSE Return([result EXCEPT
                       !.items = [i \in 1..Len(result.items) |-> Report_from_dict(result.items[i])]])

\* NumberedPage.from_dict that reads the page size from 'totalElements'
NumberedPage_from_dict_wrong_key(page, content_type) ==
    ConvertItems(NumberedPage(page.items, page.pageNumber, page.totalElements,
                              page.totalElements, page.hasNext),
                 content_type)

\* NumberedPage.from_dict(page, content_type)
NumberedPage_from_dict(page, content_type) ==
    ConvertItems(NumberedPage(page.items, page.pageNumber, page.pageSize,
                              page.totalElements, page.hasNext),
                 content_type)

\* NumberedPage.to_dict with remove_nones at its default: an item with a
\* to_dict method is replaced by its dictionary, any other item is kept
NumberedPage_to_dict(self) ==
    Return([items |-> [i \in 1..Len(self.items) |->
                          IF HasToDict(self.items[i])
                          THEN Report_to_dict(self.items[i])
                          ELSE self.items[i]],
            pageNumber |-> self.page_number,
            pageSize |-> self.page_size,
            totalElements |-> self.total_elements,
            hasNext |-> self.has_next])

\* CursorPage.from_dict(page, content_type)
CursorPage_from_dict(page, content_type) ==
    ConvertItems(CursorPage(page.items, page.responseMetadata), content_type)

\* CursorPage.to_dict with remove_nones at its default, over Report items:
\* n.to_dict(remove_nones) for every item n, with no test that n has one
CursorPage_to_dict_reports(self) ==
    IF \E i \in 1..Len(self.items) : ~HasToDict(self.items[i])
    THEN Raise(PyError("AttributeError", <<"'dict'", "object", "has", "no", "attribute", "'to_dict'">>))
    ELSE Return([items |-> [i \in 1..Len(self.items) |-> Report_to_dict(self.items[i])],
                 responseMetadata |-> self.response_metadata])

\* the items a page holds: Report objects, or raw mappings kept because no
\* content_type was given
ConvItem(i) ==
    {ReportObject(i, TRUE), ReportObject(i, FALSE), Report_to_dict(ReportObject(i, TRUE))}

RECURSIVE ConvItemLists(_)
\* the item lists of length n, the i-th item having id i
ConvItemLists(n) ==
    IF n = 0 THEN {<<>>}
    ELSE {Append(l, it) : l \in ConvItemLists(n - 1), it \in ConvItem(n)}

ConvItems == UNION {ConvItemLists(n) : n \in 0..MaxConvItems}

\* the pages that are converted
ConvNumberedPages ==
    {NumberedPage(items, pn, ps, te, hn) :
        items \in ConvItems, pn \in Opt({0}), ps \in Opt({MaxSize}),
        te \in Opt({MaxTotal}), hn \in Opt(BOOLEAN)}

ConvCursorPages ==
    {CursorPage(items, rm) :
        items \in ConvItems,
        rm \in {None, Some({}), Some({<<"nextCursor", "abc">>})}}

\* a page p and a content_type are given; nothing is converted yet
InitConvert ==
    /\ scn = "convert"
    /\ \E variant \in {"NumberedPage", "CursorPage"}, content_type \in ContentTypes :
       \E p \in (IF variant = "NumberedPage" THEN ConvNumberedPages ELSE ConvCursorPages) :
          conv = [pc |-> "page", variant |-> variant, page |-> p,
                  content_type |-> content_type]
    /\ num = IdleNum /\ cur = IdleCur /\ flat = IdleFlat /\ hist = NoHistory
    /\ tw = IdleTw /\ pair = IdlePair /\ req = IdleReq

\* page.to_dict()
ToDict ==
    /\ scn = "convert"
    /\ conv.pc = "page"
    /\ conv' = [pc |-> "dict", variant |-> conv.variant, page |-> conv.page,
                content_type |-> conv.content_type,
                dict |-> IF conv.variant = "NumberedPage"
                         THEN NumberedPage_to_dict(conv.page)
                         ELSE CursorPage_to_dict_reports(conv.page)]
    /\ UNCHANGED <<scn, paging, tw, pair, req>>

\* from_dict(d, content_type) on the dictionary d that to_dict returned
FromDict ==
    /\ scn = "convert"
    /\ conv.pc = "dict"
    /\ conv.dict.exc = None
    /\ conv' = [pc |-> "back", variant |-> conv.variant, page |-> conv.page,
                content_type |-> conv.content_type, dict |-> conv.dict,
                back |-> IF conv.variant = "NumberedPage"
                         THEN NumberedPage_from_dict(conv.dict.ret, conv.content_type)
                         ELSE CursorPage_from_dict(conv.dict.ret, conv.content_type)]
    /\ UNCHANGED <<scn, paging, tw, pair, req>>

\* from_dict was called with a content_type that cannot deserialize items
BadContentType ==
    /\ scn = "convert"
    /\ conv.pc = "back"
    /\ conv.content_type \notin {None, Some("Report")}

ValidNonEmptyPage(p) ==
    /\ Len(p.items) >= 1
    /\ \A i \in 1..Len(p.items) : p.items[i].kind = "model"

\* to_dict and then from_dict ran on a valid non-empty page, from_dict
\* without content_type or with the class of the items
RoundTrip ==
    /\ scn = "convert"
    /\ conv.pc = "back"
    /\ ValidNonEmptyPage(conv.page)
    /\ conv.content_type \in {None, Some("Report")}

\* C12 as stated: from_dict(to_dict(p)) is a page with the same items and
\* the same metadata as p.
C12_RoundTripIdentity ==
    RoundTrip => conv.back = Return(conv.page)

\* C12 amended: from_dict(to_dict(p)) is a page with the same metadata as
\* p; its items are the dictionaries to_dict made of p's items, and they
\* are p's items again only when from_dict is given the items' class as
\* content_type.
C12_RoundTripMetadata ==
    RoundTrip =>
        /\ conv.back.exc = None
        /\ [conv.back.ret EXCEPT !.items = conv.page.items] = conv.page
        /\ conv.content_type = None =>
              /\ conv.back.ret.items = conv.dict.ret.items
              /\ conv.back.ret.items # conv.page.items
        /\ conv.content_type = Some("Report") => conv.back.ret.items = conv.page.items

\* a numbered page of two reports with all metadata set went through
\* to_dict and from_dict(content_type=Report)
C12_Witness ==
    /\ RoundTrip
    /\ conv.variant = "NumberedPage"
    /\ conv.content_type = Some("Report")
    /\ Len(conv.page.items) = 2
    /\ conv.page.page_number # None /\ conv.page.page_size # None
    /\ conv.page.total_elements # None /\ conv.page.has_next = Some(FALSE)
    /\ conv.back = Return(conv.page)

\* C13: to_dict succeeds on any page of either variant: an item with a
\* to_dict method is serialized through it, any other item is passed
\* through unchanged.
C13_ToDictAnyItems ==
    (scn = "convert" /\ conv.pc \in {"dict", "back"}) =>
        /\ conv.dict.exc = None
        /\ Len(conv.dict.ret.items) = Len(conv.page.items)
        /\ \A i \in 1..Len(conv.page.items) :
              conv.dict.ret.items[i] =
                 (IF HasToDict(conv.page.items[i])
                  THEN Report_to_dict(conv.page.items[i])
                  ELSE conv.page.items[i])

----------------------------------------------------------------------------
(* The time-window page generator and ReportClient.get_reports *)

\* milliseconds in a day
DAY == 86400000

\* a report as far as the time window looks at it
TimedReport(id, updated) == [id |-> id, kind |-> "model", updated |-> updated]

\* get_next_to_time that looks for the earliest report of the page
get_next_to_time_earliest(result, to_time) ==
    IF Len(result.items) > 0
    THEN (CHOOSE m \in {result.items[i].updated : i \in 1..Len(result.items)} :
              \A i \in 1..Len(result.items) : m <= result.items[i].updated) - 1
    ELSE to_time - DAY

\* get_next_to_time that goes forward by a day after an empty page
get_next_to_time_forward(result, to_time) ==
    IF Len(result.items) > 0
    THEN result.items[Len(result.items)].updated - 1
    ELSE to_time + DAY

\* get_next_to_time that keeps to_time after an empty page
get_next_to_time_stalls(result, to_time) ==
    IF Len(result.items) > 0
    THEN result.items[Len(result.items)].updated - 1
    ELSE to_time

\* get_next_to_time, the local function of _get_reports_page_generator
get_next_to_time(result, to_time) ==
    IF Len(result.items) > 0
    THEN result.items[Len(result.items)].updated - 1
    ELSE to_time - DAY

\* the generator object get_time_based_page_generator returns
NewTimeGenerator(from_time, to_time) ==
    [pc |-> "created", from_time |-> from_time, to_time |-> to_time,
     page |-> NoNumberedPage]

\* after a yield: new_to_time = get_next_to_time(page, to_time)
TimeAdvance(g) ==
    IF g.pc = "yielded"
    THEN [g EXCEPT !.to_time = get_next_to_time(g.page, g.to_time)]
    ELSE g

\* a loop test that takes the epoch for an unset from_time
TimeLoopTest_epoch_floor(g) ==
    g.to_time > (IF g.from_time = None THEN 0 ELSE Val(g.from_time))

\* a loop test that never ends the loop
TimeLoopTest_endless(g) == g.from_time = None \/ g.to_time # Val(g.from_time)

\* a loop test that lets the empty window [from_time, from_time) through
TimeLoopTest_inclusive(g) == g.from_time = None \/ g.to_time >= Val(g.from_time)

\* loop while to_time is greater than from_time, or from_time is unset
TimeLoopTest(g) == g.from_time = None \/ g.to_time > Val(g.from_time)

TimeArgs(g) == [from_time |-> g.from_time, to_time |-> g.to_time]

\* the arguments of the fetch the next pull makes, None when it makes none
TimeNextCall(g) ==
    IF g.pc \in {"created", "yielded"} /\ TimeLoopTest(TimeAdvance(g))
    THEN Some(TimeArgs(TimeAdvance(g)))
    ELSE None

\* One pull (next()) on the time-window page generator; fetched is the
\* outcome of get_page(from_time=from_time, to_time=to_time)
get_time_based_page_generator(g, fetched) ==
    IF g.pc \in {"done", "raised"}
    THEN PullResult(g, "stop", None, FALSE, None)
    ELSE LET a == TimeAdvance(g) IN
         IF ~TimeLoopTest(a)
         THEN PullResult([a EXCEPT !.pc = "done"], "stop", None, FALSE, None)
         ELSE IF fetched.exc # None
         THEN PullResult([a EXCEPT !.pc = "raised"], "raise", fetched.exc, TRUE, TimeArgs(a))
         ELSE PullResult([a EXCEPT !.pc = "yielded", !.page = fetched.ret],
                         "yield", None, TRUE, TimeArgs(a))

\* the updated timestamps of the reports the server holds
ReportTimes == {DAY - 1, DAY, DAY + 1, DAY + 2, 2 * DAY, (MaxDays + 1) * DAY - 1}

RECURSIVE ReportStores(_)
\* the reports of a server, newest first, the i-th having id i
ReportStores(n) ==
    IF n = 0 THEN {<<>>}
    ELSE UNION {{Append(st, TimedReport(n, t)) :
                    t \in {u \in ReportTimes : \A i \in 1..(n - 1) : u <= st[i].updated}} :
                st \in ReportStores(n - 1)}

Min(a, b) == IF a <= b THEN a ELSE b

\* the reports endpoint: at most cap of the newest reports with updated in
\* [from_time, to_time), newest first
ReportsEndpoint(store, cap, from_time, to_time) ==
    LET inside(r) == /\ from_time # None => r.updated >= Val(from_time)
                     /\ r.updated < to_time
        found == SelectSeq(store, inside)
    IN SubSeq(found, 1, Min(cap, Len(found)))

\* a fetch function that returns the pages of a script, then empty pages
ScriptedFetch(pages, k) == IF k <= Len(pages) THEN pages[k] ELSE <<>>

\* ReportClient.get_reports_page(from_time, to_time) as the k-th fetch
get_reports_page(fetch, k, args) ==
    LET items == IF fetch.kind = "server"
                 THEN ReportsEndpoint(fetch.store, fetch.cap, args.from_time, args.to_time)
                 ELSE ScriptedFetch(fetch.pages, k)
    IN Return(NumberedPage(items, Some(0), Some(fetch.cap), None, None))

\* the windows asked for and the fetch functions
WindowFromTimes == {None, Some(DAY)}
WindowToTimes == {DAY, DAY + 2, (MaxDays + 1) * DAY}
ReportServers ==
    {[kind |-> "server", store |-> st, cap |-> cap, pages |-> <<>>] :
        st \in UNION {ReportStores(n) : n \in 0..MaxReports}, cap \in 1..2}

\* the window and the fetch function of the example of spec section 8
ExampleFromTime == 1000
ExampleToTime == 5000
ExampleFetches ==
    {[kind |-> "script", store |-> <<>>, cap |-> 2, pages |-> <<page>>] :
        page \in {<<TimedReport(1, 4000), TimedReport(2, 4500)>>,
                  <<TimedReport(2, 4500), TimedReport(1, 4000)>>}}

NewWindowRun(fetch, from_time, to_time) ==
    [pc |-> "run", fetch |-> fetch, from_time |-> from_time, to_time |-> to_time,
     g |-> NewTimeGenerator(from_time, to_time), f |-> NewItemGenerator,
     tos |-> <<>>, froms |-> <<>>, yielded |-> <<>>, after |-> 0]

\* ReportClient.get_reports(from_time=..., to_time=...)
InitWindow ==
    /\ scn = "window"
    /\ \/ \E fetch \in ReportServers, from_time \in WindowFromTimes, to_time \in WindowToTimes :
             tw = NewWindowRun(fetch, from_time, to_time)
       \/ \E fetch \in ExampleFetches :
             tw = NewWindowRun(fetch, Some(ExampleFromTime), ExampleToTime)
    /\ num = IdleNum /\ cur = IdleCur /\ flat = IdleFlat /\ hist = NoHistory
    /\ conv = IdleConv /\ pair = IdlePair /\ req = IdleReq

\* the next pull on get_reports has to pull the page generator
WindowNeedsPage == tw.f.pc \notin {"done", "raised"} /\ FlatNeedsPage(tw.f)

\* next() on the generator of get_reports: the next report of the page
\* held, or a pull of the time-window page generator
WindowPull ==
    /\ scn = "window"
    /\ tw.f.pc \in {"done", "raised"} => tw.after < MaxAfter
    /\ LET call == IF WindowNeedsPage THEN TimeNextCall(tw.g) ELSE None
           fetched == IF call = None THEN Raise("TransportError")
                      ELSE get_reports_page(tw.fetch, Len(tw.tos) + 1, Val(call))
           r == IF WindowNeedsPage
                THEN get_time_based_page_generator(tw.g, fetched)
                ELSE [out |-> "none", g |-> tw.g]
           fr == get_generator(tw.f, r)
       IN /\ call # None => Len(tw.tos) < MaxTimeFetch
          /\ tw' = [tw EXCEPT
                       !.g = r.g,
                       !.f = fr.f,
                       !.tos = IF call # None THEN Append(@, Val(call).to_time) ELSE @,
                       !.froms = IF call # None THEN Append(@, Val(call).from_time) ELSE @,
                       !.yielded = IF fr.out = "yield" THEN Append(@, Val(fr.item)) ELSE @,
                       !.after = IF tw.f.pc \in {"done", "raised"} THEN @ + 1 ELSE @]
    /\ UNCHANGED <<scn, paging, conv, pair, req>>

\* the updated timestamps of the reports of a page handed to the policy
PolicyTimes == {DAY - 1, DAY, DAY + 1, DAY + 2}

\* the pages handed to the policy: reports in any order
PolicyPages ==
    UNION {{NumberedPage([i \in 1..n |-> TimedReport(i, f[i])], Some(0), Some(n), None, None) :
               f \in [1..n -> PolicyTimes]} :
           n \in 0..MaxPolicyItems}

\* the to_time of the fetch that returned the page
PolicyToTimes == {DAY, DAY + 1}

\* a page and the to_time it was fetched with, before the policy is applied
InitPolicy ==
    /\ scn = "policy"
    /\ \E result \in PolicyPages, to_time \in PolicyToTimes :
          tw = [pc |-> "call", result |-> result, to_time |-> to_time]
    /\ num = IdleNum /\ cur = IdleCur /\ flat = IdleFlat /\ hist = NoHistory
    /\ conv = IdleConv /\ pair = IdlePair /\ req = IdleReq

\* new_to_time = get_next_to_time(result, to_time)
GetNextToTime ==
    /\ scn = "policy" /\ tw.pc = "call"
    /\ tw' = [pc |-> "done", result |-> tw.result, to_time |-> tw.to_time,
              next |-> get_next_to_time(tw.result, tw.to_time)]
    /\ UNCHANGED <<scn, paging, conv, pair, req>>

\* the run is over a server that answers for the window it is asked for
ServerRun == scn = "window" /\ tw.fetch.kind = "server"

\* the run is the example of spec section 8
ExampleRun == scn = "window" /\ tw.fetch.kind = "script"

\* C14: the to_time of successive fetches of the time-window generator of
\* the report client is non-increasing: no fetch uses an upper bound above
\* that of an earlier fetch, nor above the initial to_time, and the to_time
\* the generator holds is never above that of a fetch made.
C14_ToTimeNonIncreasing ==
    ServerRun =>
        /\ \A i \in 1..Len(tw.tos) : tw.tos[i] <= tw.to_time
        /\ \A i \in 1..Len(tw.tos) : \A j \in i..Len(tw.tos) : tw.tos[j] <= tw.tos[i]
        /\ \A i \in 1..Len(tw.tos) : tw.g.to_time <= tw.tos[i]

\* three fetches, to_time lowered once after a page of reports and once
\* after an empty page
C14_Witness ==
    /\ ServerRun
    /\ Len(tw.tos) >= 3
    /\ tw.tos[2] < tw.tos[1]
    /\ tw.tos[3] < tw.tos[2]
    /\ \E i \in 1..2 : tw.tos[i + 1] = tw.tos[i] - DAY
    /\ Len(tw.yielded) >= 1

\* C15: in the example (from_time 1000, to_time 5000, a fetch function that
\* returns reports with timestamps 4000 and 4500 first and empty pages
\* afterwards) to_time strictly decreases at every iteration and no
\* timestamp is yielded twice.
C15_ExampleStrictlyDecreases ==
    ExampleRun =>
        /\ \A i \in 1..Len(tw.tos) : \A j \in (i + 1)..Len(tw.tos) : tw.tos[j] < tw.tos[i]
        /\ (tw.g.pc = "done" /\ Len(tw.tos) > 0) => tw.g.to_time < tw.tos[Len(tw.tos)]
        /\ \A i \in 1..Len(tw.yielded) : \A j \in (i + 1)..Len(tw.yielded) :
              tw.yielded[i].updated # tw.yielded[j].updated

\* the example has run to its end: both reports yielded, two fetches
C15_Witness ==
    /\ ExampleRun
    /\ tw.f.pc = "done"
    /\ Len(tw.tos) = 2
    /\ tw.tos[1] = ExampleToTime
    /\ {tw.yielded[i].updated : i \in 1..Len(tw.yielded)} = {4000, 4500}

\* the ids of the reports of the server with updated in [from_time, to_time)
ReportsInWindow ==
    {tw.fetch.store[i].id :
        i \in {k \in 1..Len(tw.fetch.store) :
                  /\ tw.from_time # None => tw.fetch.store[k].updated >= Val(tw.from_time)
                  /\ tw.fetch.store[k].updated < tw.to_time}}

\* C16: over a server that returns at most a capped number of the newest
\* reports with updated in [from_time, to_time), newest first, get_reports
\* yields every report of the window [from_time, initial to_time) exactly
\* once: none twice, and none is missing when get_reports has ended.
C16_EveryReportExactlyOnce ==
    ServerRun =>
        /\ \A i \in 1..Len(tw.yielded) : \A j \in (i + 1)..Len(tw.yielded) :
              tw.yielded[i].id # tw.yielded[j].id
        /\ tw.f.pc = "done" =>
              {tw.yielded[i].id : i \in 1..Len(tw.yielded)} = ReportsInWindow

\* the pull under way computes a to_time at or below from_time
ReachesFromTime ==
    /\ scn = "window"
    /\ tw.from_time # None
    /\ WindowNeedsPage
    /\ tw.g.pc = "yielded"
    /\ get_next_to_time(tw.g.page, tw.g.to_time) <= Val(tw.from_time)

\* get_reports has ended at or below from_time, before the fetch bound
WindowEnded ==
    /\ scn = "window"
    /\ tw.f.pc = "done" /\ tw.g.pc = "done"
    /\ tw.g.to_time <= Val(tw.from_time)
    /\ Len(tw.tos) < MaxTimeFetch

\* C17: with from_time set and the report client's policy, which lowers
\* to_time at every step, the time-window generator ends: the pull that
\* computes a to_time at or below from_time ends it without a further
\* fetch, and every run reaches that end after finitely many fetches.
C17_WindowGeneratorEnds ==
    /\ [][ReachesFromTime => (tw'.g.pc = "done" /\ tw'.tos = tw.tos)]_vars
    /\ (scn = "window" /\ tw.from_time # None) ~> WindowEnded

\* a run over two days that ended after a page of reports and empty pages
C17_Witness ==
    /\ WindowEnded
    /\ tw.fetch.kind = "server"
    /\ tw.to_time = (MaxDays + 1) * DAY
    /\ Len(tw.tos) >= 3
    /\ Len(tw.yielded) >= 1

----------------------------------------------------------------------------
(* Two generator instances pulled in any interleaving *)

\* what the k-th call of a scripted fetch function does: return a page with
\* more to come, return a last page, or raise; past the script, a last page
ScriptStep(script, k) == IF k <= Len(script) THEN script[k] ELSE "last"

\* func(page_number=page_number, page_size=page_size) of a scripted function
ScriptedNumberedFetch(script, k, args) ==
    IF ScriptStep(script, k) = "error"
    THEN Raise("TransportError")
    ELSE Return(NumberedPage(ModelItems(k, 1), Some(args.page_number), args.page_size,
                             None, Some(ScriptStep(script, k) = "more")))

\* get_page(cursor=cursor) of a scripted function
ScriptedCursorFetch(script, k, args) ==
    IF ScriptStep(script, k) = "error"
    THEN Raise("TransportError")
    ELSE Return(CursorPage(ModelItems(k, 1),
                           IF ScriptStep(script, k) = "more"
                           THEN Some({<<"nextCursor", IF k = 1 THEN "abc" ELSE "def">>})
                           ELSE Some({})))

FetchScripts == {<<x, y>> : x \in {"more", "last", "error"}, y \in {"more", "last", "error"}}

\* the fetch functions of the instances of a pair, and the window of a
\* time-window instance
PairFetches(kind) ==
    IF kind = "window"
    THEN {[kind |-> "server", store |-> st, cap |-> 1, pages |-> <<>>] :
             st \in {<<>>, <<TimedReport(1, DAY + 1), TimedReport(2, DAY)>>}}
    ELSE FetchScripts
PairFromTime == Some(DAY)
PairToTime == DAY + 2

\* a generator instance with its own fetch function; calls and pages are
\* the fetch arguments and the pages yielded so far
NewInstance(kind, fetch) ==
    [kind |-> kind, fetch |-> fetch,
     g |-> CASE kind = "numbered" -> NewPageGenerator(0, None)
             [] kind = "cursor" -> NewCursorGenerator(None)
             [] OTHER -> NewTimeGenerator(PairFromTime, PairToTime),
     calls |-> <<>>, pages |-> <<>>, outs |-> <<>>]

\* the arguments of the fetch the next pull on the instance makes
InstanceNextCall(i) ==
    CASE i.kind = "numbered" -> NumNextCall(i.g)
      [] i.kind = "cursor" -> CurNextCall(i.g)
      [] OTHER -> TimeNextCall(i.g)

\* the outcome of the instance's own fetch function, called for the k-th time
InstanceFetch(i, k, args) ==
    CASE i.kind = "numbered" -> ScriptedNumberedFetch(i.fetch, k, args)
      [] i.kind = "cursor" -> ScriptedCursorFetch(i.fetch, k, args)
      [] OTHER -> get_reports_page(i.fetch, k, args)

\* one pull (next()) on the instance
InstancePull(i) ==
    LET call == InstanceNextCall(i)
        fetched == IF call = None THEN Raise("TransportError")
                   ELSE InstanceFetch(i, Len(i.calls) + 1, Val(call))
        r == CASE i.kind = "numbered" -> get_page_generator(i.g, fetched)
               [] i.kind = "cursor" -> get_cursor_based_page_generator(i.g, fetched)
               [] OTHER -> get_time_based_page_generator(i.g, fetched)
    IN [i EXCEPT
           !.g = r.g,
           !.calls = IF r.called THEN Append(@, r.args) ELSE @,
           !.pages = IF r.out = "yield" THEN Append(@, r.g.page) ELSE @,
           !.outs = Append(@, r.out)]

\* the other instance of the pair
Other(w) == IF w = 1 THEN 2 ELSE 1

\* a pull whose loop variables live in one place for all instances of a
\* kind: the other instance, when of the same kind, is left with them too
PairAfterPull_shared(p, w, i) ==
    [p EXCEPT ![w] = i,
              ![Other(w)] = IF p[Other(w)].kind = i.kind
                            THEN [@ EXCEPT !.g = i.g]
                            ELSE @]

\* a pull changes the local variables of the generator pulled: each call
\* of a generator function has its own
PairAfterPull(p, w, i) == [p EXCEPT ![w] = i]

PairKinds == {"numbered", "cursor", "window"}

\* two generators are built, each over its own fetch function
InitPair ==
    /\ scn = "pair"
    /\ \E k1 \in PairKinds, k2 \in PairKinds :
       \E f1 \in PairFetches(k1), f2 \in PairFetches(k2) :
          pair = <<NewInstance(k1, f1), NewInstance(k2, f2)>>
    /\ num = IdleNum /\ cur = IdleCur /\ flat = IdleFlat /\ hist = NoHistory
    /\ conv = IdleConv /\ tw = IdleTw /\ req = IdleReq

\* next() on one of the two generators
PairPull ==
    /\ scn = "pair"
    /\ \E w \in {1, 2} :
          /\ Len(pair[w].outs) < MaxPairPulls
          /\ pair' = PairAfterPull(pair, w, InstancePull(pair[w]))
    /\ UNCHANGED <<scn, paging, conv, tw, req>>

RECURSIVE Alone(_, _, _)
\* the instance after n pulls when it is the only generator pulled
Alone(kind, fetch, n) ==
    IF n = 0 THEN NewInstance(kind, fetch)
    ELSE InstancePull(Alone(kind, fetch, n - 1))

----------------------------------------------------------------------------
(* The end of a generator *)

Finished == {"done", "raised"}

\* the generator the consumer pulls has ended
Ended ==
    \/ scn = "numbered" /\ num.pc \in Finished
    \/ scn = "cursor" /\ cur.pc \in Finished
    \/ scn = "flat" /\ flat.pc \in Finished

\* C19: the item sequence of get_generator is single-pass: it ends exactly
\* when the page generator under it ends, and a pull on an item generator
\* or a page generator that has ended reports the end again, calls no fetch
\* function, yields nothing and leaves the generator as it is, so nothing
\* starts again from the first page.
C19_SinglePass ==
    /\ [](scn = "flat" =>
             /\ flat.pc = "done" <=> num.pc = "done"
             /\ flat.pc = "raised" <=> num.pc = "raised"
             /\ flat.pc \in Finished => get_generator(flat, [out |-> "none"]).out = "stop")
    /\ [][Ended =>
             /\ num' = num /\ cur' = cur /\ flat' = flat
             /\ hist'.nfetch = hist.nfetch
             /\ hist'.nyield = hist.nyield
             /\ hist'.pages = hist.pages
             /\ hist'.items = hist.items
             /\ scn \in {"numbered", "cursor"} => hist'.out = "stop"]_vars

\* the item generator ended after two pages and was pulled once more
C19_Witness ==
    /\ scn = "flat"
    /\ flat.pc = "done"
    /\ hist.after >= 1
    /\ hist.nfetch >= 2
    /\ Len(hist.items) >= 2

----------------------------------------------------------------------------
(* The request of ReportClient.get_reports_page *)

\* the truth value of an optional boolean in a conditional: None is false
IsTrue(b) == b = Some(TRUE)

\* distribution_type as get_reports_page computes it from is_enclave:
\* if is_enclave: ENCLAVE, elif not is_enclave: COMMUNITY
DistributionTypeOf(is_enclave) ==
    IF IsTrue(is_enclave) THEN Some("ENCLAVE")
    ELSE IF ~IsTrue(is_enclave) THEN Some("COMMUNITY")
    ELSE None

\* the params of the GET "reports" request of get_reports_page
ReportsPageParams(self, a) ==
    [from |-> a.from_time,
     to |-> a.to_time,
     distributionType |-> DistributionTypeOf(a.is_enclave),
     enclaveIds |-> IF a.enclave_ids = None THEN self.enclave_ids ELSE a.enclave_ids,
     tags |-> a.tag,
     excludedTags |-> a.excluded_tags]

\* the reports the user can access, one of each distribution type
AccessibleReports ==
    {[id |-> 1, distributionType |-> "ENCLAVE"], [id |-> 2, distributionType |-> "COMMUNITY"]}

\* the reports endpoint restricts the result to the distribution type the
\* request carries, if it carries one
ReportsOfType(params) ==
    {r.id : r \in {x \in AccessibleReports :
                      params.distributionType # None =>
                          x.distributionType = Val(params.distributionType)}}

\* the arguments of a call of get_reports_page
ReportsPageArgs ==
    [is_enclave : Opt(BOOLEAN),
     enclave_ids : {None, Some(<<"e1">>)},
     tag : {None, Some(<<"t1">>)},
     excluded_tags : {None, Some(<<"t2">>)},
     from_time : {None, Some(DAY)},
     to_time : {None, Some(2 * DAY)}]

\* a client and the arguments of a call
InitRequest ==
    /\ scn = "request"
    /\ \E a \in ReportsPageArgs, ids \in {Some(<<>>), Some(<<"e2">>)} :
          req = [pc |-> "call", self |-> [enclave_ids |-> ids], args |-> a]
    /\ num = IdleNum /\ cur = IdleCur /\ flat = IdleFlat /\ hist = NoHistory
    /\ conv = IdleConv /\ tw = IdleTw /\ pair = IdlePair

\* ReportClient.get_reports_page(...): the request is sent and answered
GetReportsPage ==
    /\ scn = "request"
    /\ req.pc = "call"
    /\ LET params == ReportsPageParams(req.self, req.args) IN
       req' = [pc |-> "answered", self |-> req.self, args |-> req.args,
               params |-> params, returned |-> ReportsOfType(params)]
    /\ UNCHANGED <<scn, paging, conv, tw, pair>>

\* C20: get_reports_page with is_enclave unset sends no distribution type,
\* so that all accessible reports are returned; the request carries
\* distributionType ENCLAVE only for is_enclave = True and COMMUNITY only
\* for is_enclave = False.
C20_UnsetMeansNoRestriction ==
    (scn = "request" /\ req.pc = "answered") =>
        /\ req.args.is_enclave = None =>
              /\ req.params.distributionType = None
              /\ req.returned = {r.id : r \in AccessibleReports}
        /\ req.params.distributionType = Some("ENCLAVE") => req.args.is_enclave = Some(TRUE)
        /\ req.params.distributionType = Some("COMMUNITY") => req.args.is_enclave = Some(FALSE)

----------------------------------------------------------------------------
(* ReportClient.submit_report, update_report and copy_report *)

\* the current time, in milliseconds since the epoch
CurrentTime == 2 * DAY

\* Report(id, external_id, is_enclave, enclave_ids, time_began) with a title
\* and no other field
Report(id, external_id, is_enclave, enclave_ids, time_began) ==
    [id |-> id, title |-> Some("title"), body |-> None, time_began |-> time_began,
     external_id |-> external_id, external_url |-> None, is_enclave |-> is_enclave,
     enclave_ids |-> enclave_ids, created |-> None, updated |-> None]

\* Report.set_time_began(datetime): the time as milliseconds since the epoch
set_time_began(self, time_began) == [self EXCEPT !.time_began = Some(time_began)]

\* Report.to_dict with remove_nones at its default, all its keys
ReportDict(self) ==
    [title |-> self.title,
     reportBody |-> self.body,
     timeBegan |-> self.time_began,
     externalUrl |-> self.external_url,
     distributionType |-> IF IsTrue(self.is_enclave) THEN "ENCLAVE" ELSE "COMMUNITY",
     externalTrackingId |-> self.external_id,
     enclaveIds |-> self.enclave_ids,
     created |-> self.created,
     updated |-> self.updated,
     id |-> self.id]

\* json.dumps(value): the text null for None, else the text of an object
json_dumps(value) ==
    IF value = None
    THEN [text |-> "null"]
    ELSE [text |-> "object", value |-> Val(value)]

\* a request handed to the HTTP client
Request(method, path, params, data) ==
    [method |-> method, path |-> path, params |-> params, data |-> data]

\* what a method of the client did: the report object as it left it, the
\* requests it issued, and what it returned or raised
CallResult(report, sent, exc, ret) ==
    [report |-> report, sent |-> sent, exc |-> exc, ret |-> ret]

\* defaults that replace the distribution type and enclave list the caller set
SubmitDefaults_overwrites(self, report) ==
    [report EXCEPT !.is_enclave = Some(TRUE), !.enclave_ids = Some(self.enclave_ids)]

\* submit_report: is_enclave defaults to True; enclave_ids defaults to the
\* client's enclave_ids for ENCLAVE and to [] for COMMUNITY
SubmitDefaults(self, report) ==
    LET r1 == IF report.is_enclave = None
              THEN [report EXCEPT !.is_enclave = Some(TRUE)]
              ELSE report
    IN IF r1.enclave_ids = None
       THEN [r1 EXCEPT !.enclave_ids = IF IsTrue(r1.is_enclave)
                                       THEN Some(self.enclave_ids)
                                       ELSE Some(<<>>)]
       ELSE r1

\* a submit_report that makes no test of the enclave list
NoEnclaves_unchecked(report) == FALSE

\* report.is_enclave and len(report.enclave_ids) == 0
NoEnclaves(report) == IsTrue(report.is_enclave) /\ Len(Val(report.enclave_ids)) = 0

\* a submit_report that checks the enclave list before it writes any default
\* onto the report
submit_report_checks_first(self, report, resp) ==
    LET r2 == SubmitDefaults(self, report) IN
    IF NoEnclaves(r2)
    THEN CallResult(report, <<>>,
                    Some(PyError("Exception", <<"Cannot", "submit", "a", "report", "of", "distribution", "type", "'ENCLAVE'", "with", "an", "empty", "set", "of", "enclaves.">>)),
                    None)
    ELSE LET r3 == IF r2.time_began = None THEN set_time_began(r2, CurrentTime) ELSE r2
             post == Request("POST", <<"reports">>, None, json_dumps(Some(ReportDict(r3))))
         IN IF resp.exc # None
            THEN CallResult(r3, <<post>>, resp.exc, None)
            ELSE CallResult([r3 EXCEPT !.id = Some(resp.ret)], <<post>>, None,
                            Some("report"))

\* ReportClient.submit_report(report); resp is what the POST does
submit_report(self, report, resp) ==
    LET r2 == SubmitDefaults(self, report) IN
    IF NoEnclaves(r2)
    THEN CallResult(r2, <<>>,
                    Some(PyError("Exception", <<"Cannot", "submit", "a", "report", "of", "distribution", "type", "'ENCLAVE'", "with", "an", "empty", "set", "of", "enclaves.">>)),
                    None)
    ELSE LET r3 == IF r2.time_began = None THEN set_time_began(r2, CurrentTime) ELSE r2
             post == Request("POST", <<"reports">>, None, json_dumps(Some(ReportDict(r3))))
         IN IF resp.exc # None
            THEN CallResult(r3, <<post>>, resp.exc, None)
            ELSE CallResult([r3 EXCEPT !.id = Some(resp.ret)], <<post>>, None,
                            Some("report"))

\* an update_report that prefers the external id
UpdateTarget_external_first(report) ==
    IF report.external_id # None
    THEN Some([id_type |-> "EXTERNAL", report_id |-> Val(report.external_id)])
    ELSE IF report.id # None
    THEN Some([id_type |-> "INTERNAL", report_id |-> Val(report.id)])
    ELSE None

\* update_report: the id type and the id the request addresses, None when
\* the report has neither id
UpdateTarget(report) ==
    IF report.id # None
    THEN Some([id_type |-> "INTERNAL", report_id |-> Val(report.id)])
    ELSE IF report.external_id # None
    THEN Some([id_type |-> "EXTERNAL", report_id |-> Val(report.external_id)])
    ELSE None

\* ReportClient.update_report(report); resp is what the PUT does
update_report(self, report, resp) ==
    LET target == UpdateTarget(report) IN
    IF target = None
    THEN CallResult(report, <<>>,
                    Some(PyError("Exception", <<"Cannot", "update", "report", "without", "either", "an", "ID", "or", "an", "external", "ID.">>)),
                    None)
    ELSE LET d == ReportDict(report)
             \* computed and not used: the dictionary without its 'reportId' key
             report_dict == [k \in (DOMAIN d) \ {"reportId"} |-> d[k]]
             put == Request("PUT", <<"reports", Val(target).report_id>>,
                            Some([idType |-> Val(target).id_type]),
                            json_dumps(Some(ReportDict(report))))
         IN IF resp.exc # None
            THEN CallResult(report, <<put>>, resp.exc, None)
            ELSE CallResult(report, <<put>>, None, Some("report"))

\* a test of the tags that lets an empty list through
NoTags_none_only(tags) == tags = None

\* not tags: no list, or an empty one
NoTags(tags) == tags = None \/ Val(tags) = <<>>

\* ReportClient.copy_report(src_report_id, dest_enclave_id,
\* from_provided_submission, report, tags); resp is what the POST does
copy_report(self, a, resp) ==
    LET params == Some([destEnclaveId |-> a.dest_enclave_id,
                        copyFromProvidedSubmission |-> a.from_provided_submission])
        d == ReportDict(Val(a.report))
        body == IF a.from_provided_submission
                THEN Some([k \in (DOMAIN d) \cup {"tags"} |->
                              IF k = "tags" THEN a.tags ELSE d[k]])
                ELSE None
        post == Request("POST", <<"reports", "copy", a.src_report_id>>, params,
                        json_dumps(body))
    IN IF a.from_provided_submission /\ a.report = None
       THEN CallResult(a.report, <<>>,
                       Some(PyError("Exception", <<"Cannot", "copy", "from", "provided", "submission", "without", "providing", "a", "report", "object">>)),
                       None)
       ELSE IF a.from_provided_submission /\ NoTags(a.tags)
       THEN CallResult(a.report, <<>>,
                       Some(PyError("Exception", <<"Cannot", "copy", "from", "provided", "submission", "without", "providing", "a", "list", "of", "tags">>)),
                       None)
       ELSE IF resp.exc # None
       THEN CallResult(a.report, <<post>>, resp.exc, None)
       ELSE CallResult(a.report, <<post>>, None, Some(resp.ret))

\* the reports handed to the client
Reports ==
    {Report(id, external_id, is_enclave, enclave_ids, time_began) :
        id \in Opt({"r1"}), external_id \in Opt({"x1"}), is_enclave \in Opt(BOOLEAN),
        enclave_ids \in {None, Some(<<>>), Some(<<"e1">>)}, time_began \in Opt({DAY})}

\* the enclave ids registered with the client
ClientEnclaveIds == {<<>>, <<"e2">>}

\* what the HTTP client does with a request: the id in the response, or an error
Responses == {Return("r9")} \cup {Raise(e) : e \in FetchErrors}

\* the arguments of copy_report
CopyArgs ==
    [src_report_id : {"r1"}, dest_enclave_id : {"e3"},
     from_provided_submission : BOOLEAN,
     report : {None, Some(Report(Some("r1"), None, Some(TRUE), Some(<<"e1">>), Some(DAY)))},
     tags : {None, Some(<<>>), Some(<<"t1">>)}]

\* a client and the arguments of a call of submit_report, update_report or
\* copy_report
InitWrite ==
    /\ scn = "write"
    /\ \E ids \in ClientEnclaveIds :
          \/ \E op \in {"submit_report", "update_report"}, report \in Reports :
                req = [pc |-> "call", op |-> op, self |-> [enclave_ids |-> ids],
                       args |-> report]
          \/ \E a \in CopyArgs :
                req = [pc |-> "call", op |-> "copy_report", self |-> [enclave_ids |-> ids],
                       args |-> a]
    /\ num = IdleNum /\ cur = IdleCur /\ flat = IdleFlat /\ hist = NoHistory
    /\ conv = IdleConv /\ tw = IdleTw /\ pair = IdlePair

\* the call has run: req keeps its arguments and what it did
Done(result, resp) ==
    [pc |-> "done", op |-> req.op, self |-> req.self, args |-> req.args,
     resp |-> resp, result |-> result]

\* ts.submit_report(report)
SubmitReport ==
    /\ scn = "write" /\ req.pc = "call" /\ req.op = "submit_report"
    /\ \E resp \in Responses : req' = Done(submit_report(req.self, req.args, resp), resp)
    /\ UNCHANGED <<scn, paging, conv, tw, pair>>

\* ts.update_report(report)
UpdateReport ==
    /\ scn = "write" /\ req.pc = "call" /\ req.op = "update_report"
    /\ \E resp \in Responses : req' = Done(update_report(req.self, req.args, resp), resp)
    /\ UNCHANGED <<scn, paging, conv, tw, pair>>

\* ts.copy_report(...)
CopyReport ==
    /\ scn = "write" /\ req.pc = "call" /\ req.op = "copy_report"
    /\ \E resp \in Responses : req' = Done(copy_report(req.self, req.args, resp), resp)
    /\ UNCHANGED <<scn, paging, conv, tw, pair>>

\* op has run
Ran(op) == scn = "write" /\ req.pc = "done" /\ req.op = op

\* the enclave list submit_report ends up with: the report's own when set,
\* else the client's for ENCLAVE and the empty list for COMMUNITY
ResultingEnclaves ==
    IF req.args.enclave_ids # None THEN Val(req.args.enclave_ids)
    ELSE IF req.args.is_enclave # Some(FALSE) THEN req.self.enclave_ids
    ELSE <<>>

\* C21: submit_report on a report of distribution type ENCLAVE (is_enclave
\* true or unset) whose resulting enclave list is empty fails and issues no
\* request; when it succeeds exactly one POST was issued and report.id is
\* the id of the response body.
C21_SubmitNeedsEnclaves ==
    Ran("submit_report") =>
        /\ (req.args.is_enclave # Some(FALSE) /\ ResultingEnclaves = <<>>) =>
              /\ req.result.exc # None
              /\ req.result.sent = <<>>
        /\ req.result.exc = None =>
              /\ Len(req.result.sent) = 1
              /\ req.result.sent[1].method = "POST"
              /\ req.result.report.id = Some(req.resp.ret)

\* a report with is_enclave unset and no enclave list, submitted by a
\* client with no registered enclaves: an error and no request
C21_Witness ==
    /\ Ran("submit_report")
    /\ req.args.is_enclave = None
    /\ req.args.enclave_ids = None
    /\ req.self.enclave_ids = <<>>
    /\ req.result.exc # None
    /\ req.result.sent = <<>>

\* C22: the report submit_report sends has its defaults filled: is_enclave
\* unset became true, enclave_ids unset became the client's enclave ids for
\* ENCLAVE and the empty list for COMMUNITY, time_began unset became the
\* current time, and an enclave_ids or time_began that was set is unchanged,
\* on the report object and in the body sent.
C22_SubmitDefaults ==
    (Ran("submit_report") /\ req.result.sent # <<>>) =>
        LET r == req.result.report
            d == req.result.sent[1].data.value
        IN /\ r.is_enclave = (IF req.args.is_enclave = None THEN Some(TRUE)
                              ELSE req.args.is_enclave)
           /\ r.enclave_ids = Some(ResultingEnclaves)
           /\ r.time_began = (IF req.args.time_began = None THEN Some(CurrentTime)
                              ELSE req.args.time_began)
           /\ d.enclaveIds = r.enclave_ids
           /\ d.timeBegan = r.time_began
           /\ d.distributionType = (IF req.args.is_enclave = Some(FALSE)
                                    THEN "COMMUNITY" ELSE "ENCLAVE")

\* a report with nothing set was sent with the client's enclaves and the
\* current time
C22_Witness ==
    /\ Ran("submit_report")
    /\ req.args.is_enclave = None /\ req.args.enclave_ids = None
    /\ req.args.time_began = None
    /\ req.result.exc = None
    /\ req.result.sent[1].data.value.enclaveIds = Some(<<"e2">>)
    /\ req.result.sent[1].data.value.timeBegan = Some(CurrentTime)

\* C23: update_report addresses the report by report.id with id type
\* INTERNAL whenever report.id is set, by report.external_id with id type
\* EXTERNAL when only external_id is set, and fails without a request when
\* neither is set.
C23_UpdateAddressing ==
    Ran("update_report") =>
        /\ req.args.id # None =>
              /\ Len(req.result.sent) = 1
              /\ req.result.sent[1].method = "PUT"
              /\ req.result.sent[1].path = <<"reports", Val(req.args.id)>>
              /\ req.result.sent[1].params = Some([idType |-> "INTERNAL"])
        /\ (req.args.id = None /\ req.args.external_id # None) =>
              /\ Len(req.result.sent) = 1
              /\ req.result.sent[1].method = "PUT"
              /\ req.result.sent[1].path = <<"reports", Val(req.args.external_id)>>
              /\ req.result.sent[1].params = Some([idType |-> "EXTERNAL"])
        /\ (req.args.id = None /\ req.args.external_id = None) =>
              /\ req.result.exc # None
              /\ req.result.sent = <<>>

\* a report with both ids was updated under its internal id
C23_Witness ==
    /\ Ran("update_report")
    /\ req.args.id = Some("r1") /\ req.args.external_id = Some("x1")
    /\ req.result.exc = None
    /\ req.result.sent[1].path = <<"reports", "r1">>

\* copy_report ran with from_provided_submission true
CopyEdited == Ran("copy_report") /\ req.args.from_provided_submission

\* the body of the request copy_report sent is the report's dictionary with
\* the given tags under 'tags'
BodyIsReportWithTags ==
    /\ Len(req.result.sent) = 1
    /\ req.result.exc = req.resp.exc
    /\ req.result.sent[1].data.text = "object"
    /\ LET body == req.result.sent[1].data.value
           d == ReportDict(Val(req.args.report))
       IN /\ DOMAIN body = (DOMAIN d) \cup {"tags"}
          /\ body.tags = req.args.tags
          /\ \A k \in DOMAIN d : body[k] = d[k]

\* copy_report failed before any request
FailedUnsent ==
    /\ req.result.exc # None
    /\ req.result.sent = <<>>

\* with from_provided_submission false the body is null
NullBody ==
    /\ Len(req.result.sent) = 1
    /\ req.result.sent[1].data = [text |-> "null"]

C29_UpdateBodyWithoutId ==
    (Ran("update_report") /\ req.result.sent # <<>>) =>
        /\ "id" \notin DOMAIN req.result.sent[1].data.value
        /\ "reportId" \notin DOMAIN req.result.sent[1].data.value

----------------------------------------------------------------------------
(* Order of fetch, extraction and yield; pulls and fetches *)

OneFetchPerPull ==
    scn \in {"numbered", "cursor"} =>
        /\ hist'.npull = hist.npull + 1
        /\ hist'.nfetch \in {hist.nfetch, hist.nfetch + 1}
        /\ (hist'.nyield = hist.nyield + 1) => (hist'.nfetch = hist.nfetch + 1)

\* C26: the numbered and cursor generators make no fetch before the first
\* pull and at most one per pull; a pull that yields a page has made
\* exactly one fetch, so that after k pages exactly k fetches were made;
\* a fetch that gave no page has ended the generator with an error.
C26_NoReadAhead ==
    /\ [](scn \in {"numbered", "cursor"} =>
             /\ hist.npull = 0 => hist.nfetch = 0
             /\ hist.nfetch <= hist.npull
             /\ hist.nyield <= hist.nfetch
             /\ hist.nfetch <= hist.nyield + 1
             /\ hist.nfetch = hist.nyield + 1 => GenPc = "raised"
             /\ hist.out = "yield" => hist.nfetch = hist.nyield)
    /\ [][OneFetchPerPull]_vars

\* three pulls of a cursor generator gave three pages with three fetches
C26_Witness ==
    /\ scn = "cursor"
    /\ hist.npull = 3
    /\ hist.nyield = 3
    /\ hist.nfetch = 3
    /\ hist.out = "yield"

\* a step that pulls a page is made when every item of the page held has
\* been yielded, and yields at most one item
PullsWhenExhausted ==
    (scn = "flat" /\ Len(hist'.pages) = Len(hist.pages) + 1) =>
        /\ (flat.pc = "yielded") => (flat.idx = Len(flat.items))
        /\ Len(hist'.items) <= Len(hist.items) + 1

\* C27: the flattening generator pulls the next page only after every item
\* of the page it holds has been yielded: when an item of the k-th page is
\* yielded exactly k pages have been pulled and fetched, the generator
\* holds that page only, and the items yielded are those of the pages
\* before it and the first items of the k-th.
C27_PageByPage ==
    /\ [](scn = "flat" =>
             /\ Len(hist.pages) = hist.nyield
             /\ flat.pc = "yielded" =>
                   /\ hist.nfetch = Len(hist.pages)
                   /\ flat.items = hist.pages[Len(hist.pages)]
                   /\ flat.idx \in 1..Len(flat.items)
                   /\ hist.items[Len(hist.items)] = flat.items[flat.idx]
                   /\ Len(hist.items) = Len(Concat(Front(hist.pages))) + flat.idx)
    /\ [][PullsWhenExhausted]_vars

\* the second item of the second page is yielded: two pages pulled
C27_Witness ==
    /\ scn = "flat"
    /\ flat.pc = "yielded"
    /\ Len(hist.pages) = 2
    /\ Len(hist.pages[1]) >= 2
    /\ flat.idx = 2
    /\ hist.nfetch = 2

\* C28: every fetch of the time-window generator is made with the caller's
\* from_time and, when from_time is set, with a to_time above it: no fetch
\* is made for an empty or inverted window, also when the window given at
\* the start is empty.
C28_WindowNeverEmpty ==
    scn = "window" =>
        /\ tw.g.from_time = tw.from_time
        /\ Len(tw.froms) = Len(tw.tos)
        /\ \A i \in 1..Len(tw.tos) :
              /\ tw.froms[i] = tw.from_time
              /\ tw.from_time # None => tw.tos[i] > Val(tw.from_time)
        /\ (tw.from_time # None /\ tw.to_time <= Val(tw.from_time)) => tw.tos = <<>>

\* a run that ended after two fetches at the report 1 ms above from_time
C28_Witness ==
    /\ scn = "window"
    /\ tw.fetch.kind = "server"
    /\ tw.from_time = Some(DAY)
    /\ tw.g.pc = "done"
    /\ Len(tw.tos) = 2
    /\ tw.tos[2] = DAY + 1
    /\ tw.g.to_time <= DAY

\* the pull after a page follows has_more_pages of the page fetched last
FollowsLastPage ==
    (scn = "numbered" /\ num.pc = "yielded") =>
        LET more == has_more_pages(Val(hist.fetched_page)) IN
        /\ (more.exc = None /\ Truthy(more.ret)) <=> (hist'.nfetch = hist.nfetch + 1)
        /\ (more.exc = None /\ ~Truthy(more.ret)) => (num'.pc = "done")
        /\ (more.exc # None) => (num'.pc = "raised")

\* C30: the continuation decision of the numbered generator depends on the
\* page fetched last only: the pull after a page fetches again exactly
\* when has_more_pages of that page is true, ends the generator when it is
\* false or None, and raises when it raises, whatever total_elements the
\* pages before it reported.
C30_Memoryless ==
    [][FollowsLastPage]_vars

\* the second page reports 3 elements in pages of 1, more than the first
\* page did, and the generator is about to fetch a third page
C30_Witness ==
    /\ scn = "numbered"
    /\ num.pc = "yielded"
    /\ hist.nfetch = 2
    /\ hist.trend = "grew"
    /\ num.page = NumberedPage(<<>>, Some(1), Some(1), Some(3), None)
    /\ NumNextCall(num) = Some([page_number |-> 2, page_size |-> num.page_size])

----------------------------------------------------------------------------
(* The numbered generator: first page, end of the run, failures *)

\* every fetch so far returned a consistent page, from any start_page
ConsistentFrom ==
    /\ scn = "numbered"
    /\ hist.consistent
    /\ hist.nyield >= 1

\* C31: the first pull of get_page_generator fetches, and yields the page
\* when the fetch returns one, before any continuation test; over consistent
\* pages with T = ceil(total_elements / page_size) and start_page = s the
\* generator yields pages s..T-1 (T - s pages) when s < T and page s alone
\* when s >= T, also when total_elements is 0, and then ends.
C31_AtLeastOnePage ==
    /\ (scn = "numbered" /\ hist.npull >= 1) =>
          /\ hist.nfetch >= 1
          /\ hist.fetch_err = None => hist.nyield >= 1
    /\ ConsistentFrom =>
          LET T == PagesNeeded(Val(num.page.total_elements), Val(num.page.page_size))
              s == num.start_page
          IN /\ YieldsExactly(IF s < T THEN T - s ELSE 1)
             /\ num.page.page_number = Some(s + hist.nyield - 1)

\* started at page 1 of a server with no elements: page 1 was yielded and
\* the generator ended
C31_Witness ==
    /\ ConsistentFrom
    /\ num.start_page = 1
    /\ num.page.total_elements = Some(0)
    /\ num.pc = "done"
    /\ hist.nyield = 1
    /\ hist.nfetch = 1

\* C32: the numbered generator takes its continuation decision from the
\* page it fetched, not from its own counter, and has no bound of its own:
\* it has ended normally only after a page whose has_more_pages is false or
\* indeterminate, and after every other page the next pull fetches page
\* counter + 1, however many pages were fetched before; so pages that always
\* say has_next = true, or always report the same page_number below the
\* last page, keep it fetching.
C32_EndsOnlyAtHaltingPage ==
    scn = "numbered" =>
        /\ num.pc = "done" => Halting(num.page) /\ hist.halted_at = hist.nfetch
        /\ num.pc = "raised" =>
              hist.fetch_err # None \/ has_more_pages(num.page).exc # None
        /\ num.pc = "yielded" =>
              LET more == has_more_pages(num.page) IN
              /\ Halting(num.page) <=> NumNextCall(num) = None /\ more.exc = None
              /\ (more.exc = None /\ Truthy(more.ret)) =>
                    NumNextCall(num) = Some([page_number |-> num.page_number + 1,
                                             page_size |-> num.page_size])
              /\ (num.page.has_next = Some(TRUE)) => NumNextCall(num) # None
              /\ (/\ num.page.has_next = None /\ num.page.page_number # None
                  /\ num.page.total_elements # None /\ num.page.page_size # None
                  /\ Val(num.page.page_size) > 0) =>
                    ((NumNextCall(num) # None) <=>
                        Val(num.page.page_number) + 1 <
                            PagesNeeded(Val(num.page.total_elements),
                                        Val(num.page.page_size)))

\* every page fetched reported page_number 0 of 3 pages: after MaxFetch
\* fetches the counter is past the last page and the next pull fetches again
C32_Witness ==
    /\ scn = "numbered"
    /\ num.pc = "yielded"
    /\ num.start_page = 0
    /\ hist.nfetch = MaxFetch
    /\ hist.halted_at = 0
    /\ num.page = NumberedPage(<<>>, Some(0), Some(1), Some(3), None)
    /\ num.page_number + 1 > 3
    /\ NumNextCall(num) = Some([page_number |-> num.page_number + 1,
                                page_size |-> num.page_size])

\* has_next unset, total_elements set and page_size 0
FailingPage(p) ==
    p.has_next = None /\ p.total_elements # None /\ p.page_size = Some(0)

\* the pull after a yielded page on which has_more_pages fails gives that
\* error, without a fetch, and the generator is finished
RaisesAfterYield ==
    (NumResumes /\ FailingPage(num.page)) =>
        /\ num'.pc = "raised"
        /\ hist'.out = "raise"
        /\ hist'.err = Some("ZeroDivisionError")
        /\ hist'.nfetch = hist.nfetch
        /\ hist'.nyield = hist.nyield

\* C33: has_more_pages returns true, false or None without raising on every
\* page except those with has_next unset, total_elements set and page_size
\* 0, whatever page_number is; on these it raises ZeroDivisionError, the
\* page has been yielded before, and the error leaves get_page_generator on
\* the next pull.
C33_OnlyZeroPageSizeRaises ==
    /\ [](scn = "numbered" /\ hist.nyield >= 1 =>
             LET more == has_more_pages(num.page) IN
             /\ FailingPage(num.page) <=> more.exc # None
             /\ FailingPage(num.page) => more = Raise("ZeroDivisionError")
             /\ ~FailingPage(num.page) => more.ret \in {None, Some(TRUE), Some(FALSE)}
             /\ (hist.out = "raise" /\ hist.fetch_err = None) =>
                   /\ FailingPage(num.page)
                   /\ hist.nyield = hist.nfetch
                   /\ hist.fetched_page = Some(num.page))
    /\ [][RaisesAfterYield]_vars

\* a page with no page_number, page_size 0 and total_elements 2 was yielded
\* and the next pull raised
C33_Witness ==
    /\ scn = "numbered"
    /\ num.pc = "raised"
    /\ hist.out = "raise"
    /\ hist.err = Some("ZeroDivisionError")
    /\ num.page = NumberedPage(<<>>, None, Some(0), Some(2), None)
    /\ hist.nyield = 1 /\ hist.nfetch = 1 /\ hist.npull = 2

----------------------------------------------------------------------------
(* What a failed submit_report leaves on the report *)

\* submit_report raised its 'empty set of enclaves' error
EmptyEnclavesError ==
    /\ Ran("submit_report")
    /\ req.result.sent = <<>>
    /\ req.result.exc # None

\* C34: when submit_report fails with the 'empty set of enclaves' error the
\* caller's report carries the defaults written before the check:
\* is_enclave unset has become true and enclave_ids unset has become the
\* client's (empty) enclave list, while id, time_began and every other
\* field are as they were before the call.
C34_FailureKeepsDefaults ==
    EmptyEnclavesError =>
        LET before == req.args
            after == req.result.report
        IN /\ after.is_enclave = (IF before.is_enclave = None THEN Some(TRUE)
                                  ELSE before.is_enclave)
           /\ after.enclave_ids = Some(ResultingEnclaves)
           /\ after.id = before.id
           /\ after.time_began = before.time_began
           /\ after = [before EXCEPT !.is_enclave = after.is_enclave,
                                     !.enclave_ids = after.enclave_ids]

\* a report with is_enclave, enclave_ids and time_began unset, submitted by
\* a client with no enclaves: the call failed, is_enclave is now true,
\* enclave_ids the empty list, time_began still unset
C34_Witness ==
    /\ EmptyEnclavesError
    /\ req.args.is_enclave = None
    /\ req.args.enclave_ids = None
    /\ req.args.time_began = None
    /\ req.result.report.is_enclave = Some(TRUE)
    /\ req.result.report.enclave_ids = Some(<<>>)
    /\ req.result.report.time_began = None
    /\ req.result.report # req.args

----------------------------------------------------------------------------
(* The time window without a lower bound; the advance policy *)

\* get_reports over a server, from_time unset
Unbounded == ServerRun /\ tw.from_time = None

\* a pull of the page generator of an unbounded run makes a fetch, and after
\* an empty page the fetch is for the window one day lower, which is empty
\* as well
StepsBackForever ==
    (Unbounded /\ WindowNeedsPage) =>
        /\ Len(tw'.tos) = Len(tw.tos) + 1
        /\ tw'.g.pc = "yielded"
        /\ (tw.g.pc = "yielded" /\ tw.g.page.items = <<>>) =>
              /\ tw'.tos[Len(tw'.tos)] = tw.g.to_time - DAY
              /\ tw'.g.page.items = <<>>

\* C35: with from_time unset the time-window generator of the report client
\* never reaches its end: the page generator is never done, every pull of it
\* makes a fetch, and once a page is empty every later fetch is one day
\* below the fetch before it and gives an empty page again, so that
\* get_reports never ends either.
C35_UnboundedNeverEnds ==
    /\ [](Unbounded =>
             /\ tw.g.pc \in {"created", "yielded"}
             /\ tw.f.pc \notin {"done", "raised"}
             /\ tw.after = 0
             /\ TimeNextCall(tw.g) # None
             /\ \A i \in 1..Len(tw.froms) : tw.froms[i] = None)
    /\ [][StepsBackForever]_vars

\* an empty server: after four fetches, each a day below the one before,
\* the next pull fetches a day lower still
C35_Witness ==
    /\ Unbounded
    /\ tw.fetch.store = <<>>
    /\ Len(tw.tos) = 4
    /\ \A i \in 1..3 : tw.tos[i + 1] = tw.tos[i] - DAY
    /\ tw.yielded = <<>>
    /\ TimeNextCall(tw.g) = Some([from_time |-> None, to_time |-> tw.tos[4] - DAY])

\* get_next_to_time was applied to a page
PolicyApplied == scn = "policy" /\ tw.pc = "done"

\* the smallest updated of the reports of a non-empty page
MinUpdated(items) ==
    CHOOSE m \in {items[i].updated : i \in 1..Len(items)} :
        \A i \in 1..Len(items) : m <= items[i].updated

\* the reports are ordered newest first
NewestFirst(items) ==
    \A i \in 1..(Len(items) - 1) : items[i].updated >= items[i + 1].updated

----------------------------------------------------------------------------
(* Report: distribution type through to_dict and from_dict *)

\* the constants of DistributionType, the strings of the API's
\* distributionType field
DistributionType == [ENCLAVE |-> "ENCLAVE", COMMUNITY |-> "COMMUNITY"]

\* the distributionType strings a dictionary may carry
DistributionStrings ==
    {"ENCLAVE", "COMMUNITY", "enclave", "community", "Community", "OTHER", ""}

\* str.upper() on these strings
Upper(s) ==
    CASE s \in {"community", "Community"} -> "COMMUNITY"
      [] s = "enclave" -> "ENCLAVE"
      [] OTHER -> s

\* dict.get(key) on a dictionary given as a function of its keys
Get(d, key) == IF key \in DOMAIN d THEN d[key] ELSE None

\* Report(id=..., is_enclave=...): is_enclave None becomes True
Report_init(id, external_id, is_enclave, enclave_ids, time_began) ==
    Report(id, external_id, IF is_enclave = None THEN Some(TRUE) ELSE is_enclave,
           enclave_ids, time_began)

\* from_dict comparing distributionType as it is written
Report_from_dict_case_sensitive(report) ==
    LET distribution_type == Get(report, "distributionType")
        is_enclave == IF "distributionType" \in DOMAIN report
                      THEN Some(distribution_type # DistributionType.COMMUNITY)
                      ELSE None
    IN Report_init(Get(report, "id"), Get(report, "externalTrackingId"), is_enclave,
                   Get(report, "enclaveIds"), Get(report, "timeBegan"))

\* Report.from_dict(report): is_enclave is
\* distribution_type.upper() != COMMUNITY, and None when the dictionary has
\* no distributionType
Report_from_dict_all(report) ==
    LET distribution_type == Get(report, "distributionType")
        is_enclave == IF "distributionType" \in DOMAIN report
                      THEN Some(Upper(distribution_type) # DistributionType.COMMUNITY)
                      ELSE None
    IN Report_init(Get(report, "id"), Get(report, "externalTrackingId"), is_enclave,
                   Get(report, "enclaveIds"), Get(report, "timeBegan"))

\* the dictionaries handed to from_dict: with and without distributionType
ReportDictionaries ==
    {[k \in {"id"} |-> Some("r1")]}
        \cup {[id |-> Some("r1"), distributionType |-> s] : s \in DistributionStrings}

\* the arguments of a Report that is built and converted, or a dictionary
\* that is read
InitReport ==
    /\ scn = "report"
    /\ \/ \E is_enclave \in Opt(BOOLEAN), enclave_ids \in {None, Some(<<"e1">>)} :
             conv = [pc |-> "new", is_enclave |-> is_enclave, enclave_ids |-> enclave_ids]
       \/ \E d \in ReportDictionaries : conv = [pc |-> "dict", report |-> d]
    /\ num = IdleNum /\ cur = IdleCur /\ flat = IdleFlat /\ hist = NoHistory
    /\ tw = IdleTw /\ pair = IdlePair /\ req = IdleReq

\* r = Report(is_enclave=...); Report.from_dict(r.to_dict())
ReportRoundTrip ==
    /\ scn = "report" /\ conv.pc = "new"
    /\ LET r == Report_init(Some("r1"), None, conv.is_enclave, conv.enclave_ids, None) IN
       conv' = [pc |-> "done", op |-> "round_trip", is_enclave |-> conv.is_enclave,
                r |-> r, dict |-> ReportDict(r), back |-> Report_from_dict_all(ReportDict(r))]
    /\ UNCHANGED <<scn, paging, tw, pair, req>>

\* Report.from_dict(report)
ReportFromDict ==
    /\ scn = "report" /\ conv.pc = "dict"
    /\ conv' = [pc |-> "done", op |-> "from_dict", report |-> conv.report,
                back |-> Report_from_dict_all(conv.report)]
    /\ UNCHANGED <<scn, paging, tw, pair, req>>

\* op has been applied
Converted(op) == scn = "report" /\ conv.pc = "done" /\ conv.op = op

\* C37: for every Report r built by the constructor, r.is_enclave is a
\* boolean (true when the argument was unset), r.to_dict() says ENCLAVE for
\* true and COMMUNITY for false, and Report.from_dict(r.to_dict()) has the
\* is_enclave of r; from_dict gives is_enclave = true for a dictionary with
\* no distributionType and for every distributionType that is not COMMUNITY
\* in some casing, and false for COMMUNITY in any casing.
C37_DistributionTypeRoundTrip ==
    /\ Converted("round_trip") =>
          /\ conv.r.is_enclave = (IF conv.is_enclave = None THEN Some(TRUE)
                                  ELSE conv.is_enclave)
          /\ conv.dict.distributionType =
                (IF conv.r.is_enclave = Some(TRUE) THEN "ENCLAVE" ELSE "COMMUNITY")
          /\ conv.back.is_enclave = conv.r.is_enclave
    /\ Converted("from_dict") =>
          IF "distributionType" \in DOMAIN conv.report
          THEN conv.back.is_enclave =
                  Some(conv.report.distributionType
                          \notin {"COMMUNITY", "community", "Community"})
          ELSE conv.back.is_enclave = Some(TRUE)

\* a COMMUNITY report came back from its dictionary as a COMMUNITY report
C37_Witness ==
    /\ Converted("round_trip")
    /\ conv.is_enclave = Some(FALSE)
    /\ conv.dict.distributionType = "COMMUNITY"
    /\ conv.back.is_enclave = Some(FALSE)

----------------------------------------------------------------------------
Init == InitNumbered \/ InitCursor \/ InitFlat \/ InitConvert \/ InitWindow
        \/ InitPair \/ InitRequest \/ InitWrite \/ InitPolicy \/ InitReport

Next == NumPull \/ CurPull \/ FlatPull \/ ToDict \/ FromDict \/ WindowPull
        \/ PairPull \/ GetReportsPage \/ SubmitReport \/ UpdateReport \/ CopyReport
        \/ GetNextToTime \/ ReportRoundTrip \/ ReportFromDict

\* the consumer of get_reports goes on pulling until the generator ends
FairWindow == WF_vars(WindowPull)

Spec == Init /\ [][Next]_vars

FairSpec == Init /\ [][Next]_vars /\ FairWindow

====
